---- MODULE Spec2Model ----
(***************************************************************************)
(* State-machine model of the lago-front screens: the create-credit-note   *)
(* form, the webhook log list, the customer wallet list and the Moneyhash  *)
(* and Netsuite integration pages.  Every screen is a React component: its *)
(* state is the hook state it holds, its operations are its event          *)
(* handlers.  One specification per screen (SpecFees and SpecForm for the  *)
(* credit-note form, SpecLists for the two lists, SpecIntegrations).        *)
(***************************************************************************)
EXTENDS Integers, Sequences, FiniteSets, TLC

VARIABLES
  \* ---- create-credit-note form (src/unnamed/part_003) ----
  invoiceType,        \* invoice?.invoiceType
  cnLoading,          \* loading returned by useCreateCreditNote
  values,             \* formikProps.values
  errors,             \* formikProps.errors
  payBackValidation,  \* the payBack schema held by useState
  pendingCreate,      \* number of onCreate calls that have not answered yet
  initialValues,      \* the initialValues formik holds (enableReinitialize)
  warningDialogOpen,  \* the WarningDialog behind warningDialogRef is open
  cnLocation,         \* the route shown: the form or the invoice details
  \* ---- usePermissions ----
  granted,            \* the permissions of the current membership
  permissionsMode,    \* whether hasPermissions wants every listed permission or some
  \* ---- the two paginated lists ----
  screen,             \* the list that is mounted: "webhookLogs" or "customerWallets"
  \* ---- webhook logs (src/src/pages/developers/WebhookLogs.tsx) ----
  whServerPages,      \* pages of logs the server holds for the current search
  whData,             \* data?.webhooks of useGetWebhookLogLazyQuery
  whLoading,          \* loading of the same query (notifyOnNetworkStatusChange)
  whError,            \* error of the same query
  whIsLoading,        \* isLoading of useDebouncedSearch
  whPendingSearch,    \* the search term typed and not yet sent (debounce)
  whSearchTerm,       \* variables?.searchTerm
  fetchMoreLoading,   \* useState(false)
  whInFlight,         \* requests of the query that have not answered yet
  selectedLogId,      \* useState(undefined)
  statusFilter,       \* useParams().tab
  \* ---- customer wallet list (src/unnamed/part_000) ----
  wlServer,           \* the customer's wallets on the server, in list order
  wlData,             \* data?.wallets of useGetCustomerWalletListQuery
  wlLoading,          \* loading of the same query
  wlError,            \* error of the same query
  wlInFlight,         \* pages asked with fetchMore that have not answered yet
  wlDialog,           \* the wallet dialog that is open
  wlLocation,         \* where the router is: the customer page or a wallet form
  \* ---- integration settings pages (src/src/pages/settings) ----
  \* ---- components without state (src/unnamed/part_001, mapStatus of part_003) ----
  view,               \* the component rendered
  props,              \* the props it is given
  rendered,           \* what it returned, once it has rendered
  igLocation,         \* the route shown: a connection list, the details page, an overview
  igIntegrationId,    \* useParams().integrationId of the details page
  igServer,           \* ids of the connections the server holds
  igData,             \* data of the page's query
  igLoading,          \* loading of the page's query
  igDialog,           \* the dialog that is open, with what openDialog was given
  lastOp              \* the handler that ran last, with its arguments

cnNav == <<initialValues, warningDialogOpen, cnLocation>>

cnVars ==
  <<invoiceType, cnLoading, values, errors, payBackValidation, pendingCreate, cnNav>>

permVars == <<granted, permissionsMode>>

whVars ==
  <<whServerPages, whData, whLoading, whError, whIsLoading, whPendingSearch, whSearchTerm,
    fetchMoreLoading, whInFlight, selectedLogId, statusFilter>>

wlVars == <<wlServer, wlData, wlLoading, wlError, wlInFlight, wlDialog, wlLocation>>

listVars == <<screen, whVars, wlVars>>

igVars == <<igLocation, igIntegrationId, igServer, igData, igLoading, igDialog>>

viewVars == <<view, props, rendered>>

vars == <<cnVars, permVars, listVars, igVars, viewVars, lastOp>>

\* what a handler of the credit note form leaves alone
notCn == <<permVars, listVars, igVars, viewVars>>

(***************************************************************************)
(* JavaScript values that are neither booleans nor records.                *)
(***************************************************************************)
undefined == "undefined"
null == "null"

\* a JS boolean as a member of boolean | undefined | null
JsBool(b) == IF b THEN "true" ELSE "false"

\* a number | undefined: no number, or the number v
None == <<>>
Some(v) == <<v>>

\* the truthiness of a number | undefined
Truthy(amount) == amount # None /\ amount[1] # 0

(***************************************************************************)
(* Bounds.                                                                 *)
(***************************************************************************)
\* largest size of an invoice's fee objects taken together: a plain fee counts
\* 1, a grouped fee counts 1 plus the number of its inner fees
MaxFeeWeight == 4
\* onCreate calls that may be awaiting their answer at once
MaxPendingCreate == 1

(***************************************************************************)
(* Form data: CreditNoteForm, FromFee, GroupedFee.  A JS object whose keys *)
(* are ids is a sequence here: the position is the key, the order is the   *)
(* order of Object.keys.                                                   *)
(***************************************************************************)
\* amounts a fee's value field takes: 1 is within maxAmount, 2 exceeds it
MaxAmount == 1
Amounts == 0 .. (MaxAmount + 1)

FromFee(checked, value) ==
  [id |-> <<0, 0, 0>>, name |-> "fee", checked |-> checked, value |-> value,
   maxAmount |-> MaxAmount]

GroupedFee(grouped) == [name |-> "group", grouped |-> grouped]

\* typeof child?.checked === 'boolean'
IsFromFee(child) == "checked" \in DOMAIN child

InitialFees == {FromFee(b, MaxAmount) : b \in BOOLEAN}

GroupsOfSize(k) == {GroupedFee(g) : g \in [1 .. k -> InitialFees]}

ChildrenOfWeight(w) == (IF w = 1 THEN InitialFees ELSE {}) \cup GroupsOfSize(w - 1)

\* every fee object of weight w
RECURSIVE FeeObjectsOfWeight(_)
FeeObjectsOfWeight(w) ==
  IF w = 0 THEN {<<>>}
  ELSE UNION {{<<c>> \o rest : c \in ChildrenOfWeight(k), rest \in FeeObjectsOfWeight(w - k)}
              : k \in 1 .. w}

\* every fee object of weight at most w
FeeObjects(w) == UNION {FeeObjectsOfWeight(k) : k \in 0 .. w}

\* the ids of the fees of subscription s: distinct for distinct places
WithIds(s, feeObject) ==
  [i \in DOMAIN feeObject |->
     IF IsFromFee(feeObject[i])
       THEN [feeObject[i] EXCEPT !.id = <<s, i, 0>>]
       ELSE [feeObject[i] EXCEPT
               !.grouped = [j \in DOMAIN @ |-> [@[j] EXCEPT !.id = <<s, i, j>>]]]]

Subscription(s, feeObject) ==
  [subscriptionName |-> s, fees |-> WithIds(s, feeObject)]

\* the subscription keys of the invoice in SpecFees
SubKeys == {1, 2}

\* feesPerInvoice of an invoice with two subscriptions, of every shape within the bound
FeesPerInvoice ==
  UNION {{<<Subscription(1, a), Subscription(2, b)>> :
            a \in FeeObjectsOfWeight(w), b \in FeeObjects(MaxFeeWeight - w)}
         : w \in 0 .. MaxFeeWeight}

\* the FromFee records of one subscription, plain and grouped alike
LeafFees(sub) ==
  UNION {IF IsFromFee(sub.fees[i])
           THEN {sub.fees[i]}
           ELSE {sub.fees[i].grouped[j] : j \in DOMAIN sub.fees[i].grouped}
         : i \in DOMAIN sub.fees}

(***************************************************************************)
(* determineCheckboxValue and checkboxGroupValue.                          *)
(***************************************************************************)
determineCheckboxValue(initialValue, additionnalValue) ==
  IF initialValue = undefined \/ additionnalValue = undefined THEN undefined
  ELSE IF initialValue = null THEN additionnalValue
  ELSE IF initialValue # additionnalValue THEN undefined
  ELSE additionnalValue

\* acc = determineCheckboxValue(acc, v) for each v of vals, in order
RECURSIVE ReduceCheckbox(_, _)
ReduceCheckbox(acc, vals) ==
  IF vals = <<>> THEN acc
  ELSE ReduceCheckbox(determineCheckboxValue(acc, Head(vals)), Tail(vals))

\* groupValue of a grouped fee: the fold over its inner fees, from null
GroupValue(child) ==
  ReduceCheckbox(null, [j \in DOMAIN child.grouped |-> JsBool(child.grouped[j].checked)])

\* what one child contributes to subscriptionGroupValues.value
ChildValue(child) ==
  IF IsFromFee(child) THEN JsBool(child.checked) ELSE GroupValue(child)

\* subscriptionGroupValues of one subscription: value, and one entry per grouped fee
SubscriptionGroupValues(sub) ==
  [value |-> ReduceCheckbox(null, [i \in DOMAIN sub.fees |-> ChildValue(sub.fees[i])]),
   groups |-> [i \in {k \in DOMAIN sub.fees : ~IsFromFee(sub.fees[k])} |->
                 GroupValue(sub.fees[i])]]

checkboxGroupValue(fees) == [s \in DOMAIN fees |-> SubscriptionGroupValues(fees[s])]

\* _get(checkboxGroupValue, `${subKey}.value`): the header checkbox of a subscription
HeaderValue(subKey) == checkboxGroupValue(values.fees)[subKey].value

(***************************************************************************)
(* Validation: the schema of useFormik.                                    *)
(***************************************************************************)
\* a checked fee needs an amount in 1 .. maxAmount
FeeInvalid(fee) == fee.checked /\ (fee.value < 1 \/ fee.value > fee.maxAmount)

FeesInvalid(fees) == \E s \in DOMAIN fees : \E f \in LeafFees(fees[s]) : FeeInvalid(f)

FeeListInvalid(list) == \E i \in DOMAIN list : FeeInvalid(list[i])

\* array() accepts every payBack; the schema CreditNoteFormCalculation installs
\* wants a type and an amount in every entry
PayBackInvalid(payBack, schema) ==
  /\ schema = "calculation"
  /\ \E i \in DOMAIN payBack : payBack[i].type = undefined \/ ~Truthy(payBack[i].value)

\* the fields validationSchema rejects
InvalidFields(v, schema) ==
  (IF v.reason = undefined THEN {"reason"} ELSE {}) \cup
  (IF FeesInvalid(v.fees) THEN {"fees"} ELSE {}) \cup
  (IF FeeListInvalid(v.addOnFee) THEN {"addOnFee"} ELSE {}) \cup
  (IF FeeListInvalid(v.creditFee) THEN {"creditFee"} ELSE {}) \cup
  (IF PayBackInvalid(v.payBack, schema) THEN {"payBack"} ELSE {})

\* formik's errors object after validating v
Validate(v, schema) == [f \in InvalidFields(v, schema) |-> "invalid"]

\* formikProps.isValid
isValid == DOMAIN errors = {}

(***************************************************************************)
(* The form's initial values.                                              *)
(***************************************************************************)
InitialValues(feesPerInvoice, feeForAddOn, feeForCredit) ==
  [description |-> undefined,
   reason |-> undefined,
   fees |-> feesPerInvoice,
   addOnFee |-> feeForAddOn,
   creditFee |-> feeForCredit,
   payBack |-> <<[type |-> undefined, value |-> None]>>]

NoOp == [op |-> "mount"]

\* the lists are not mounted
ListsIdle ==
  /\ screen = "none"
  /\ whServerPages = 0 /\ whData = <<>> /\ whLoading = FALSE /\ whError = FALSE
  /\ whIsLoading = FALSE /\ whPendingSearch = <<>> /\ whSearchTerm = ""
  /\ fetchMoreLoading = FALSE /\ whInFlight = <<>> /\ selectedLogId = <<>>
  /\ statusFilter = <<>>
  /\ wlServer = <<>> /\ wlData = <<>> /\ wlLoading = FALSE /\ wlError = FALSE
  /\ wlInFlight = <<>> /\ wlDialog = "none" /\ wlLocation = "customer"

\* generatePath(route, {integrationGroup})
Route(route, integrationGroup) == [route |-> route, integrationGroup |-> integrationGroup]

NoRoute == Route("none", "none")

\* a callback that is undefined
NoCallback == [defined |-> FALSE, route |-> NoRoute]

\* no dialog is open
NoDialog == [kind |-> "none", provider |-> <<>>, callback |-> NoCallback]

\* no integration page is mounted
IntegrationsIdle ==
  /\ igLocation = NoRoute /\ igIntegrationId = <<>> /\ igServer = {} /\ igData = <<>>
  /\ igLoading = FALSE /\ igDialog = NoDialog

\* no stateless component is looked at
ViewsIdle == view = "none" /\ props = <<>> /\ rendered = <<>>

\* no permission is asked for
PermissionsIdle == granted = {} /\ permissionsMode = "every"

\* the form is on screen and no dialog covers it
FormShown == cnLocation = "form" /\ ~warningDialogOpen

\* SpecFees: an invoice with subscriptions, every shape of fee object
InitFees ==
  /\ invoiceType = "subscription"
  /\ cnLoading = FALSE
  /\ \E f \in FeesPerInvoice : values = InitialValues(f, <<>>, <<>>)
  /\ payBackValidation = "array"
  /\ errors = Validate(values, payBackValidation)
  /\ pendingCreate = 0
  /\ initialValues = values /\ warningDialogOpen = FALSE /\ cnLocation = "form"
  /\ lastOp = NoOp
  /\ ListsIdle /\ PermissionsIdle /\ IntegrationsIdle /\ ViewsIdle

(***************************************************************************)
(* Handlers of the form.                                                   *)
(***************************************************************************)
CREDIT_NOTE_REASONS == {"duplicated_charge", "other"}

\* ToggledFees with the amount cleared along with the check mark
ToggledFeesClearsAmount(childValues, value) ==
  [i \in DOMAIN childValues |->
     IF IsFromFee(childValues[i])
       THEN [childValues[i] EXCEPT !.checked = value, !.value = IF value THEN @ ELSE 0]
       ELSE [childValues[i] EXCEPT
               !.grouped = [j \in DOMAIN @ |-> [@[j] EXCEPT !.checked = value]]]]

\* the new `fees.${subKey}.fees` built by the subscription Checkbox's onChange
ToggledFees(childValues, value) ==
  [i \in DOMAIN childValues |->
     IF IsFromFee(childValues[i])
       THEN [childValues[i] EXCEPT !.checked = value]
       ELSE [childValues[i] EXCEPT
               !.grouped = [j \in DOMAIN @ |-> [@[j] EXCEPT !.checked = value]]]]

\* the subscription header Checkbox's onChange
SubscriptionCheckboxChange(subKey, value) ==
  /\ FormShown /\ ~cnLoading
  /\ subKey \in DOMAIN values.fees
  /\ values' = [values EXCEPT !.fees[subKey].fees = ToggledFees(@, value)]
  /\ errors' = Validate(values', payBackValidation)
  /\ lastOp' = [op |-> "subscriptionCheckbox", subKey |-> subKey, value |-> value]
  /\ UNCHANGED <<invoiceType, cnLoading, payBackValidation, pendingCreate, cnNav, notCn>>

\* CreditNoteFormItem's checkbox for the fee at fees.<s>.fees.<i>[.grouped.<j>]
FeeCheckboxChange(s, i, j, value) ==
  /\ FormShown /\ ~cnLoading
  /\ s \in DOMAIN values.fees
  /\ i \in DOMAIN values.fees[s].fees
  /\ IF IsFromFee(values.fees[s].fees[i])
       THEN /\ j = 0
            /\ values' = [values EXCEPT !.fees[s].fees[i].checked = value]
       ELSE /\ j \in DOMAIN values.fees[s].fees[i].grouped
            /\ values' = [values EXCEPT !.fees[s].fees[i].grouped[j].checked = value]
  /\ errors' = Validate(values', payBackValidation)
  /\ lastOp' = [op |-> "feeCheckbox"]
  /\ UNCHANGED <<invoiceType, cnLoading, payBackValidation, pendingCreate, cnNav, notCn>>

\* the reason ComboBoxField
ReasonChange(reason) ==
  /\ FormShown /\ ~cnLoading
  /\ values' = [values EXCEPT !.reason = reason]
  /\ errors' = Validate(values', payBackValidation)
  /\ lastOp' = [op |-> "reason"]
  /\ UNCHANGED <<invoiceType, cnLoading, payBackValidation, pendingCreate, cnNav, notCn>>

NextFees ==
  \/ \E s \in SubKeys, v \in BOOLEAN : SubscriptionCheckboxChange(s, v)
  \/ \E s \in SubKeys, i \in 1 .. MaxFeeWeight, j \in 0 .. MaxFeeWeight, v \in BOOLEAN :
        FeeCheckboxChange(s, i, j, v)
  \/ \E r \in CREDIT_NOTE_REASONS \cup {undefined} : ReasonChange(r)

SpecFees == InitFees /\ [][NextFees]_vars

(***************************************************************************)
(* The whole form (SpecForm): loading, editing, submitting.                *)
(***************************************************************************)
\* what useCreateCreditNote returns once loaded: a prepaid-credits invoice, an
\* invoice with one subscription (a plain fee and a grouped fee), an add-on invoice
LoadedInvoices ==
  {[invoiceType |-> "credit", feesPerInvoice |-> <<>>, feeForAddOn |-> <<>>,
    feeForCredit |-> <<[FromFee(TRUE, MaxAmount) EXCEPT !.id = <<0, 1, 0>>]>>],
   [invoiceType |-> "subscription",
    feesPerInvoice |->
      <<Subscription(1, <<FromFee(TRUE, MaxAmount),
                          GroupedFee(<<FromFee(TRUE, MaxAmount)>>)>>)>>,
    feeForAddOn |-> <<>>, feeForCredit |-> <<>>],
   [invoiceType |-> "add_on", feesPerInvoice |-> <<>>,
    feeForAddOn |-> <<[FromFee(TRUE, MaxAmount) EXCEPT !.id = <<0, 2, 0>>]>>,
    feeForCredit |-> <<>>]}

\* isPrepaidCreditsInvoice
IsPrepaidCreditsInvoice(type) == type = "credit"

\* formikProps.values.creditFee?.[0]?.value
creditFeeValue(v) == IF v.creditFee = <<>> THEN None ELSE Some(v.creditFee[1].value)

\* the effect, had it [isPrepaidCreditsInvoice, creditFee] as dependencies and
\* written the refund only for a checked credit fee
PayBackEffectOnChecked(oldType, old, newType, new) ==
  IF /\ \/ IsPrepaidCreditsInvoice(oldType) # IsPrepaidCreditsInvoice(newType)
        \/ old.creditFee # new.creditFee
     /\ IsPrepaidCreditsInvoice(newType)
     /\ Truthy(creditFeeValue(new))
    THEN [new EXCEPT !.payBack =
            IF new.creditFee[1].checked
              THEN <<[type |-> "refund", value |-> creditFeeValue(new)]>>
              ELSE <<>>]
    ELSE new

\* the useEffect on [isPrepaidCreditsInvoice, creditFeeValue]: it runs after a
\* render that changed one of the two, and gives the values it leaves
PayBackEffect(oldType, old, newType, new) ==
  IF /\ \/ IsPrepaidCreditsInvoice(oldType) # IsPrepaidCreditsInvoice(newType)
        \/ creditFeeValue(old) # creditFeeValue(new)
     /\ IsPrepaidCreditsInvoice(newType)
     /\ Truthy(creditFeeValue(new))
    THEN [new EXCEPT !.payBack = <<[type |-> "refund", value |-> creditFeeValue(new)]>>]
    ELSE new

InitForm ==
  /\ invoiceType = undefined
  /\ cnLoading = TRUE
  /\ values = InitialValues(<<>>, <<>>, <<>>)
  /\ payBackValidation = "array"
  /\ errors = Validate(values, payBackValidation)
  /\ pendingCreate = 0
  /\ initialValues = values /\ warningDialogOpen = FALSE /\ cnLocation = "form"
  /\ lastOp = NoOp
  /\ ListsIdle /\ PermissionsIdle /\ IntegrationsIdle /\ ViewsIdle

\* useCreateCreditNote answers: enableReinitialize resets the form to the new
\* initial values, CreditNoteFormCalculation (rendered unless the invoice is a
\* prepaid-credits one) installs its payBack schema, the form is validated
LoadDone(inv) ==
  /\ cnLocation = "form"
  /\ cnLoading
  /\ initialValues' = InitialValues(inv.feesPerInvoice, inv.feeForAddOn, inv.feeForCredit)
  /\ cnLoading' = FALSE
  /\ invoiceType' = inv.invoiceType
  /\ values' = PayBackEffect(invoiceType, values, inv.invoiceType,
                             InitialValues(inv.feesPerInvoice, inv.feeForAddOn,
                                           inv.feeForCredit))
  /\ payBackValidation' =
       IF IsPrepaidCreditsInvoice(inv.invoiceType) THEN "array" ELSE "calculation"
  /\ errors' = Validate(values', payBackValidation')
  /\ lastOp' = [op |-> "loaded"]
  /\ UNCHANGED <<pendingCreate, warningDialogOpen, cnLocation, notCn>>

\* CreditNoteFormItem's amount input for the fee at fees.<s>.fees.<i>[.grouped.<j>]
FeeValueChange(s, i, j, amount) ==
  /\ FormShown /\ ~cnLoading
  /\ s \in DOMAIN values.fees
  /\ i \in DOMAIN values.fees[s].fees
  /\ IF IsFromFee(values.fees[s].fees[i])
       THEN /\ j = 0
            /\ values' = [values EXCEPT !.fees[s].fees[i].value = amount]
       ELSE /\ j \in DOMAIN values.fees[s].fees[i].grouped
            /\ values' = [values EXCEPT !.fees[s].fees[i].grouped[j].value = amount]
  /\ errors' = Validate(values', payBackValidation)
  /\ lastOp' = [op |-> "feeValue"]
  /\ UNCHANGED <<invoiceType, cnLoading, payBackValidation, pendingCreate, cnNav, notCn>>

\* CreditNoteFormItem's amount input for addOnFee.0 or creditFee.0, then the effect
ListFeeValueChange(field, amount) ==
  /\ FormShown /\ ~cnLoading
  /\ values[field] # <<>>
  /\ values' = PayBackEffect(invoiceType, values, invoiceType,
                             [values EXCEPT ![field][1].value = amount])
  /\ errors' = Validate(values', payBackValidation)
  /\ lastOp' = [op |-> "listFeeValue"]
  /\ UNCHANGED <<invoiceType, cnLoading, payBackValidation, pendingCreate, cnNav, notCn>>

\* CreditNoteFormItem's checkbox for addOnFee.0
AddOnFeeCheckboxChange(value) ==
  /\ FormShown /\ ~cnLoading
  /\ values.addOnFee # <<>>
  /\ values' = [values EXCEPT !.addOnFee[1].checked = value]
  /\ errors' = Validate(values', payBackValidation)
  /\ lastOp' = [op |-> "addOnFeeCheckbox"]
  /\ UNCHANGED <<invoiceType, cnLoading, payBackValidation, pendingCreate, cnNav, notCn>>

\* the Items Checkbox of a prepaid-credits invoice: setFieldValue(`creditFee.0.checked`)
CreditFeeCheckboxChange(value) ==
  /\ FormShown /\ ~cnLoading
  /\ IsPrepaidCreditsInvoice(invoiceType)
  /\ values.creditFee # <<>>
  /\ values' = PayBackEffect(invoiceType, values, invoiceType,
                             [values EXCEPT !.creditFee[1].checked = value])
  /\ errors' = Validate(values', payBackValidation)
  /\ lastOp' = [op |-> "creditFeeCheckbox"]
  /\ UNCHANGED <<invoiceType, cnLoading, payBackValidation, pendingCreate, cnNav, notCn>>

\* the description TextInputField
DescriptionChange(text) ==
  /\ FormShown /\ ~cnLoading
  /\ values' = [values EXCEPT !.description = text]
  /\ errors' = Validate(values', payBackValidation)
  /\ lastOp' = [op |-> "description"]
  /\ UNCHANGED <<invoiceType, cnLoading, payBackValidation, pendingCreate, cnNav, notCn>>

\* the payBack entries CreditNoteFormCalculation lets the user give
PayBacks ==
  {<<[type |-> "credit", value |-> Some(MaxAmount)]>>,
   <<[type |-> "credit", value |-> None]>>,
   <<[type |-> "credit", value |-> Some(MaxAmount)],
     [type |-> "refund", value |-> Some(MaxAmount)]>>}

\* CreditNoteFormCalculation's payBack inputs
PayBackChange(payBack) ==
  /\ FormShown /\ ~cnLoading
  /\ ~IsPrepaidCreditsInvoice(invoiceType)
  /\ values' = [values EXCEPT !.payBack = payBack]
  /\ errors' = Validate(values', payBackValidation)
  /\ lastOp' = [op |-> "payBack"]
  /\ UNCHANGED <<invoiceType, cnLoading, payBackValidation, pendingCreate, cnNav, notCn>>

\* the submit Button ignores clicks even though the form has errors
SubmitDisabledOnlyWhileLoading == cnLoading

\* the submit Button's disabled prop: the loading branch renders it disabled,
\* the loaded branch passes !formikProps.isValid
SubmitDisabled == cnLoading \/ ~isValid

\* a click on the submit Button: submitForm validates, and calls onSubmit, which
\* calls onCreate, only when the validation finds no error
SubmitClick ==
  /\ FormShown /\ ~SubmitDisabled
  /\ pendingCreate < MaxPendingCreate
  /\ errors' = Validate(values, payBackValidation)
  /\ pendingCreate' = IF DOMAIN errors' = {} THEN pendingCreate + 1 ELSE pendingCreate
  /\ lastOp' = [op |-> "submitForm", dispatched |-> DOMAIN errors' = {}]
  /\ UNCHANGED <<invoiceType, cnLoading, values, payBackValidation, cnNav,
                 notCn>>

\* what onCreate may answer
Answers == {"success", "DoesNotMatchItemAmounts", "otherError"}

\* hasDefinedGQLError('DoesNotMatchItemAmounts', answer?.errors)
hasDefinedGQLError(code, answer) == answer = code

\* every error answer marks payBack
ErrorsAfterSubmitAnyError(answer, errs) ==
  IF answer # "success"
    THEN [payBack |-> <<[value |-> "DoesNotMatchItemAmounts"],
                        [value |-> "DoesNotMatchItemAmounts"]>>]
    ELSE errs

\* formik's errors once onSubmit has handled the answer: setErrors replaces them
ErrorsAfterSubmit(answer, errs) ==
  IF hasDefinedGQLError("DoesNotMatchItemAmounts", answer)
    THEN [payBack |-> <<[value |-> "DoesNotMatchItemAmounts"],
                        [value |-> "DoesNotMatchItemAmounts"]>>]
    ELSE errs

\* onCreate answers and onSubmit goes on after its await
CreateAnswer(answer) ==
  /\ cnLocation = "form"
  /\ pendingCreate > 0
  /\ pendingCreate' = pendingCreate - 1
  /\ errors' = ErrorsAfterSubmit(answer, errors)
  /\ lastOp' = [op |-> "onSubmit", answer |-> answer]
  /\ UNCHANGED <<invoiceType, cnLoading, values, payBackValidation, cnNav,
                 notCn>>

\* the invoice details route, overview tab
InvoiceOverview == "CUSTOMER_INVOICE_DETAILS_ROUTE/overview"

\* a form that counts as dirty only once a reason is chosen
dirtyOnReason == values.reason # initialValues.reason

\* formikProps.dirty: the values differ from the initial values
dirty == values # initialValues

\* the close Button of the page header, rendered while loading too
CloseClick ==
  /\ FormShown
  /\ IF dirty
       THEN warningDialogOpen' = TRUE /\ UNCHANGED cnLocation
       ELSE cnLocation' = InvoiceOverview /\ UNCHANGED warningDialogOpen
  /\ lastOp' = [op |-> "close"]
  /\ UNCHANGED <<invoiceType, cnLoading, values, errors, payBackValidation, pendingCreate,
                 initialValues, notCn>>

\* onContinue of the WarningDialog
WarningContinue ==
  /\ cnLocation = "form" /\ warningDialogOpen
  /\ cnLocation' = InvoiceOverview
  /\ warningDialogOpen' = FALSE
  /\ lastOp' = [op |-> "warningContinue"]
  /\ UNCHANGED <<invoiceType, cnLoading, values, errors, payBackValidation, pendingCreate,
                 initialValues, notCn>>

\* the WarningDialog is dismissed
WarningCancel ==
  /\ cnLocation = "form" /\ warningDialogOpen
  /\ warningDialogOpen' = FALSE
  /\ lastOp' = [op |-> "warningCancel"]
  /\ UNCHANGED <<invoiceType, cnLoading, values, errors, payBackValidation, pendingCreate,
                 initialValues, cnLocation, notCn>>

NextForm ==
  \/ \E inv \in LoadedInvoices : LoadDone(inv)
  \/ \E v \in BOOLEAN : SubscriptionCheckboxChange(1, v)
  \/ \E i \in 1 .. 2, j \in 0 .. 1, v \in BOOLEAN : FeeCheckboxChange(1, i, j, v)
  \/ \E i \in 1 .. 2, j \in 0 .. 1, a \in Amounts : FeeValueChange(1, i, j, a)
  \/ \E f \in {"addOnFee", "creditFee"}, a \in Amounts : ListFeeValueChange(f, a)
  \/ \E v \in BOOLEAN : AddOnFeeCheckboxChange(v)
  \/ \E v \in BOOLEAN : CreditFeeCheckboxChange(v)
  \/ \E r \in CREDIT_NOTE_REASONS \cup {undefined} : ReasonChange(r)
  \/ \E d \in {undefined, "text"} : DescriptionChange(d)
  \/ \E p \in PayBacks : PayBackChange(p)
  \/ SubmitClick
  \/ \E a \in Answers : CreateAnswer(a)
  \/ CloseClick
  \/ WarningContinue
  \/ WarningCancel

SpecForm == InitForm /\ [][NextForm]_vars

(***************************************************************************)
(* Claims about the subscription header checkbox (SpecFees).               *)
(***************************************************************************)
AllChecked(sub) == \A f \in LeafFees(sub) : f.checked
NoneChecked(sub) == \A f \in LeafFees(sub) : ~f.checked

\* C1: for every subscription with at least one fee, the header checkbox value
\* is true iff every fee is checked, false iff no fee is checked, and
\* indeterminate (undefined) iff some fees are checked and some are not.
C1_HeaderIsTriState ==
  \A s \in DOMAIN values.fees :
    LeafFees(values.fees[s]) # {} =>
      /\ HeaderValue(s) = "true" <=> AllChecked(values.fees[s])
      /\ HeaderValue(s) = "false" <=> NoneChecked(values.fees[s])
      /\ HeaderValue(s) = undefined <=>
           (~AllChecked(values.fees[s]) /\ ~NoneChecked(values.fees[s]))

\* C2: after the header checkbox of a subscription (with at least one fee) was
\* toggled to v, every plain and grouped fee of it has checked = v, the header
\* value is v and not indeterminate, and toggling to v again changes nothing.
C2_ToggleSetsEveryFee ==
  (lastOp.op = "subscriptionCheckbox" /\ LeafFees(values.fees[lastOp.subKey]) # {}) =>
    /\ \A f \in LeafFees(values.fees[lastOp.subKey]) : f.checked = lastOp.value
    /\ HeaderValue(lastOp.subKey) = JsBool(lastOp.value)
    /\ ToggledFees(values.fees[lastOp.subKey].fees, lastOp.value) =
         values.fees[lastOp.subKey].fees

\* a fee is the fee it was, but for its checked flag
SameFeeButChecked(old, new) == new = [old EXCEPT !.checked = new.checked]

\* a fee object has the keys it had, and each fee is the fee it was but for checked
SameFeesButChecked(old, new) ==
  /\ DOMAIN new = DOMAIN old
  /\ \A i \in DOMAIN old :
       IF IsFromFee(old[i])
         THEN IsFromFee(new[i]) /\ SameFeeButChecked(old[i], new[i])
         ELSE /\ ~IsFromFee(new[i])
              /\ DOMAIN new[i] = DOMAIN old[i]
              /\ new[i].name = old[i].name
              /\ DOMAIN new[i].grouped = DOMAIN old[i].grouped
              /\ \A j \in DOMAIN old[i].grouped :
                   SameFeeButChecked(old[i].grouped[j], new[i].grouped[j])

\* C3: toggling the header checkbox of one subscription changes only the checked
\* flags of that subscription's fees: their other fields and keys, the other
\* subscriptions, and addOnFee, creditFee, payBack, reason and description stay.
C3_ToggleFrame ==
  [][lastOp'.op = "subscriptionCheckbox" =>
       /\ DOMAIN values' = DOMAIN values
       /\ DOMAIN values'.fees = DOMAIN values.fees
       /\ \A t \in DOMAIN values.fees \ {lastOp'.subKey} : values'.fees[t] = values.fees[t]
       /\ DOMAIN values'.fees[lastOp'.subKey] = DOMAIN values.fees[lastOp'.subKey]
       /\ values'.fees[lastOp'.subKey].subscriptionName =
            values.fees[lastOp'.subKey].subscriptionName
       /\ SameFeesButChecked(values.fees[lastOp'.subKey].fees,
                             values'.fees[lastOp'.subKey].fees)
       /\ values'.addOnFee = values.addOnFee
       /\ values'.creditFee = values.creditFee
       /\ values'.payBack = values.payBack
       /\ values'.reason = values.reason
       /\ values'.description = values.description]_vars

\* C3 witness: a subscription holding a plain fee and a grouped fee was toggled
\* to checked while a reason is chosen and the other subscription has an
\* unchecked fee.
C3_Witness ==
  /\ lastOp.op = "subscriptionCheckbox"
  /\ lastOp.value
  /\ values.reason # undefined
  /\ \E i, k \in DOMAIN values.fees[lastOp.subKey].fees :
       /\ IsFromFee(values.fees[lastOp.subKey].fees[i])
       /\ ~IsFromFee(values.fees[lastOp.subKey].fees[k])
       /\ values.fees[lastOp.subKey].fees[k].grouped # <<>>
  /\ \E t \in DOMAIN values.fees \ {lastOp.subKey} :
       \E f \in LeafFees(values.fees[t]) : ~f.checked

(***************************************************************************)
(* Claims about submitting the form (SpecForm).                            *)
(***************************************************************************)
\* C9: the submit button is disabled whenever the form is invalid, the form is
\* invalid as long as no reason is chosen, and onCreate is never dispatched from
\* the button while the reason is unset or the fees, addOnFee, creditFee or
\* payBack schema reports an error.
C9_SubmitNeedsValidForm ==
  /\ (~isValid \/ InvalidFields(values, payBackValidation) # {}) => SubmitDisabled
  /\ values.reason = undefined => ~isValid
  /\ (lastOp.op = "submitForm" /\ lastOp.dispatched) =>
       /\ values.reason # undefined
       /\ InvalidFields(values, payBackValidation) = {}

\* C9 witness: with one onCreate dispatched and still unanswered, the reason
\* was cleared again and the button of the loaded form is disabled.
C9_Witness ==
  /\ ~cnLoading
  /\ pendingCreate > 0
  /\ values.reason = undefined
  /\ SubmitDisabled

DoesNotMatchItemAmountsErrors ==
  [payBack |-> <<[value |-> "DoesNotMatchItemAmounts"],
                 [value |-> "DoesNotMatchItemAmounts"]>>]

\* C10: when onCreate answers with the DoesNotMatchItemAmounts error, onSubmit
\* sets the form's errors to exactly two payBack entries of that value; for any
\* other answer it sets no error; in both cases it leaves the values as they are.
C10_SubmitErrorHandling ==
  [][lastOp'.op = "onSubmit" =>
       /\ values' = values
       /\ lastOp'.answer = "DoesNotMatchItemAmounts" =>
            errors' = DoesNotMatchItemAmountsErrors
       /\ lastOp'.answer # "DoesNotMatchItemAmounts" => errors' = errors]_vars

\* C10 witness: onSubmit has just handled a DoesNotMatchItemAmounts answer.
C10_Witness ==
  /\ lastOp.op = "onSubmit"
  /\ lastOp.answer = "DoesNotMatchItemAmounts"
  /\ errors = DoesNotMatchItemAmountsErrors
  /\ values.reason # undefined

(***************************************************************************)
(* usePermissions.  The hook is not part of the sources at hand: both       *)
(* readings of hasPermissions over a list are kept, the one that wants      *)
(* every listed permission and the one that wants some of them.             *)
(***************************************************************************)
WalletPermissions == {"walletsCreate", "walletsTopUp", "walletsUpdate", "walletsTerminate"}

hasPermissions(permissionsToCheck) ==
  IF permissionsMode = "every"
    THEN permissionsToCheck \subseteq granted
    ELSE permissionsToCheck \cap granted # {}

\* the credit note form is not mounted
CnIdle ==
  /\ invoiceType = undefined
  /\ cnLoading = FALSE
  /\ values = InitialValues(<<>>, <<>>, <<>>)
  /\ payBackValidation = "array"
  /\ errors = Validate(values, payBackValidation)
  /\ pendingCreate = 0
  /\ initialValues = values /\ warningDialogOpen = FALSE /\ cnLocation = "none"

\* what a handler of a list leaves alone
notLists == <<cnVars, permVars, igVars, viewVars>>

RemoveAt(s, i) == SubSeq(s, 1, i - 1) \o SubSeq(s, i + 1, Len(s))

Min(a, b) == IF a < b THEN a ELSE b

(***************************************************************************)
(* The webhook logs page.  The server holds whServerPages pages of logs     *)
(* for the current search; a page of the model carries one log.             *)
(***************************************************************************)
MaxPages == 3

MaxInFlight == 2

SearchTerms == {"", "evt"}

WebhookLog(page) == [id |-> page]

WebhookPage(page, totalPages) == IF page <= totalPages THEN <<WebhookLog(page)>> ELSE <<>>

\* data?.webhooks?.collection || []
Collection(data) == IF data = None THEN <<>> ELSE data[1].collection

\* const { currentPage = 0, totalPages = 0 } = data?.<list>?.metadata || {}
CurrentPage(data) == IF data = None THEN 0 ELSE data[1].metadata.currentPage

TotalPages(data) == IF data = None THEN 0 ELSE data[1].metadata.totalPages

hasLogs == Len(Collection(whData)) > 0

\* the values the :tab segment of the route can take: none (the route without
\* tab), the two the filter buttons navigate to, and the third status of
\* WebhookStatusEnum, which only a typed or linked address reaches
TabParams == {None, Some("succeeded"), Some("failed"), Some("pending")}

\* ...(statusFilter ? { status: statusFilter } : {}): the status variable sent
Status == statusFilter

\* the variant of the three filter buttons
AllVariant == IF statusFilter = None THEN "secondary" ELSE "quaternary"

SucceededVariant == IF statusFilter = Some("succeeded") THEN "secondary" ELSE "quaternary"

FailedVariant == IF statusFilter = Some("failed") THEN "secondary" ELSE "quaternary"

\* the paths the filter buttons navigate to, as the tab they carry
FilterTargets == {None, Some("succeeded"), Some("failed")}

\* the effect, had it [hasLogs] as its only dependency
SelectedLogIdOnHasLogs(oldData, newData, selected) ==
  IF (Len(Collection(oldData)) > 0) = (Len(Collection(newData)) > 0)
    THEN selected
    ELSE IF Len(Collection(newData)) > 0
           THEN Some(Collection(newData)[1].id)
           ELSE None

\* the effect, had it spared the selection when a page is appended
SelectedLogIdKeptOnAppend(oldData, newData, selected) ==
  IF \/ Collection(oldData) = Collection(newData) /\ (oldData = None) = (newData = None)
     \/ /\ selected # None
        /\ Len(Collection(oldData)) < Len(Collection(newData))
        /\ SubSeq(Collection(newData), 1, Len(Collection(oldData))) = Collection(oldData)
    THEN selected
    ELSE IF Len(Collection(newData)) > 0
           THEN Some(Collection(newData)[1].id)
           ELSE None

\* the effect on [hasLogs, collection]: it runs when one of the two changed
SelectedLogIdEffect(oldData, newData, selected) ==
  IF Collection(oldData) = Collection(newData) /\ (oldData = None) = (newData = None)
    THEN selected
    ELSE IF Len(Collection(newData)) > 0
           THEN Some(Collection(newData)[1].id)
           ELSE None

WhErrorShown == whError /\ ~whLoading /\ ~whIsLoading

\* the empty placeholder that does not wait for the debounced search
WhEmptyShownDuringSearch == ~WhErrorShown /\ ~whLoading /\ ~hasLogs

WhEmptyShown == ~WhErrorShown /\ ~whLoading /\ ~whIsLoading /\ ~hasLogs

\* title and subtitle of the empty placeholder: !!variables?.searchTerm
WhEmptyTitle == IF whSearchTerm # "" THEN "search" ELSE "default"

WhEmptySubtitle == IF ~(whSearchTerm # "") THEN "default" ELSE "search"

\* the InfiniteScroll of the logs is mounted
WhListShown == ~WhErrorShown /\ ~WhEmptyShown

\* typing in the search input: useDebouncedSearch raises isLoading and waits
WhSearchInput(term) ==
  /\ screen = "webhookLogs"
  /\ whPendingSearch' = Some(term)
  /\ whIsLoading' = TRUE
  /\ lastOp' = [op |-> "searchInput", term |-> term]
  /\ UNCHANGED <<screen, statusFilter, whServerPages, whData, whLoading, whError, whSearchTerm,
                 fetchMoreLoading, whInFlight, selectedLogId, wlVars, notLists>>

\* the debounce runs out: getWebhookLogs is executed with the search term; the
\* query it supersedes no longer answers, data of other variables is dropped
WhDebouncedSearch ==
  /\ screen = "webhookLogs"
  /\ whPendingSearch # None
  /\ LET term == whPendingSearch[1]
         kept == SelectSeq(whInFlight, LAMBDA r : r.kind = "fetchMore")
         newData == IF term = whSearchTerm THEN whData ELSE None
     IN /\ Len(kept) < MaxInFlight
        /\ whInFlight' = Append(kept, [kind |-> "query", page |-> 1, searchTerm |-> term, status |-> Status])
        /\ whSearchTerm' = term
        /\ whData' = newData
        /\ selectedLogId' = SelectedLogIdEffect(whData, newData, selectedLogId)
        /\ lastOp' = [op |-> "search", term |-> term]
  /\ whPendingSearch' = None
  /\ whLoading' = TRUE
  /\ whIsLoading' = TRUE
  /\ UNCHANGED <<screen, statusFilter, whServerPages, whError, fetchMoreLoading, wlVars, notLists>>

\* the reload button, rendered once data?.webhooks?.collection is there
WhReloadShown == ~WhErrorShown /\ whData # None

WhReloadClick ==
  /\ screen = "webhookLogs"
  /\ WhReloadShown
  /\ Len(whInFlight) < MaxInFlight
  /\ whInFlight' =
       Append(whInFlight, [kind |-> "refetch", page |-> 1, searchTerm |-> whSearchTerm,
                          status |-> Status])
  /\ whLoading' = TRUE
  /\ whIsLoading' = TRUE
  /\ lastOp' = [op |-> "refetch"]
  /\ UNCHANGED <<screen, statusFilter, whServerPages, whData, whError, whPendingSearch, whSearchTerm,
                 fetchMoreLoading, selectedLogId, wlVars, notLists>>

\* the query or a refetch answers with the first page, or fails
WhQueryResult(i, totalPages, ok) ==
  /\ screen = "webhookLogs"
  /\ i \in DOMAIN whInFlight
  /\ whInFlight[i].kind \in {"query", "refetch"}
  /\ LET newData ==
           IF ok
             THEN Some([collection |-> WebhookPage(1, totalPages),
                        metadata |-> [currentPage |-> 1, totalPages |-> totalPages]])
             ELSE None
     IN /\ whData' = newData
        /\ selectedLogId' = SelectedLogIdEffect(whData, newData, selectedLogId)
  /\ whServerPages' = IF ok THEN totalPages ELSE whServerPages
  /\ whError' = ~ok
  /\ whInFlight' = RemoveAt(whInFlight, i)
  /\ whLoading' = (whInFlight' # <<>>)
  /\ whIsLoading' = (whLoading' \/ whPendingSearch # None)
  /\ lastOp' = [op |-> "queryResult", ok |-> ok]
  /\ UNCHANGED <<screen, statusFilter, whPendingSearch, whSearchTerm, fetchMoreLoading, wlVars, notLists>>

\* onBottom of the InfiniteScroll, up to the await
WhOnBottom ==
  /\ screen = "webhookLogs"
  /\ WhListShown
  /\ LET currentPage == CurrentPage(whData)
         totalPages == TotalPages(whData)
     IN IF currentPage < totalPages /\ ~whIsLoading
          THEN /\ Len(whInFlight) < MaxInFlight
               /\ fetchMoreLoading' = TRUE
               /\ whInFlight' = Append(whInFlight, [kind |-> "fetchMore",
                                                    page |-> currentPage + 1,
                                                    searchTerm |-> whSearchTerm,
                                                    status |-> Status])
               /\ whLoading' = TRUE
               /\ whIsLoading' = TRUE
               /\ lastOp' = [op |-> "onBottom", list |-> "webhookLogs",
                             requested |-> Some(currentPage + 1)]
          ELSE /\ lastOp' = [op |-> "onBottom", list |-> "webhookLogs", requested |-> None]
               /\ UNCHANGED <<fetchMoreLoading, whInFlight, whLoading, whIsLoading>>
  /\ UNCHANGED <<screen, statusFilter, whServerPages, whData, whError, whPendingSearch, whSearchTerm,
                 selectedLogId, wlVars, notLists>>

\* the fetchMore awaited by onBottom settles: a page that belongs to the current
\* search is appended and setFetchMoreLoading(false) runs; a rejected fetchMore
\* leaves the handler before that line
WhFetchMoreResult(i, ok) ==
  /\ screen = "webhookLogs"
  /\ i \in DOMAIN whInFlight
  /\ whInFlight[i].kind = "fetchMore"
  /\ LET req == whInFlight[i]
         newData ==
           IF ok /\ whData # None /\ req.searchTerm = whSearchTerm /\ req.status = Status
             THEN Some([collection |->
                          Collection(whData) \o WebhookPage(req.page, whServerPages),
                        metadata |-> [currentPage |-> req.page,
                                      totalPages |-> whServerPages]])
             ELSE whData
     IN /\ whData' = newData
        /\ selectedLogId' = SelectedLogIdEffect(whData, newData, selectedLogId)
  /\ fetchMoreLoading' = IF ok THEN FALSE ELSE fetchMoreLoading
  /\ whInFlight' = RemoveAt(whInFlight, i)
  /\ whLoading' = (whInFlight' # <<>>)
  /\ whIsLoading' = (whLoading' \/ whPendingSearch # None)
  /\ lastOp' = [op |-> "fetchMoreResult", list |-> "webhookLogs", ok |-> ok,
                selected |-> selectedLogId]
  /\ UNCHANGED <<screen, statusFilter, whServerPages, whError, whPendingSearch, whSearchTerm, wlVars,
                 notLists>>

\* onClick of a WebhookLogItem
WhLogClick(i) ==
  /\ screen = "webhookLogs"
  /\ WhListShown
  /\ i \in DOMAIN Collection(whData)
  /\ selectedLogId' = Some(Collection(whData)[i].id)
  /\ lastOp' = [op |-> "logClick", id |-> Collection(whData)[i].id]
  /\ UNCHANGED <<screen, statusFilter, whServerPages, whData, whLoading, whError, whIsLoading,
                 whPendingSearch, whSearchTerm, fetchMoreLoading, whInFlight, wlVars,
                 notLists>>

\* navigate of useListKeysNavigation: the key handler of the grid hands over the
\* data-id of the row it reached, one of the rows getElmId can name
WhKeyDown(i) ==
  /\ screen = "webhookLogs"
  /\ WhListShown
  /\ i \in DOMAIN Collection(whData)
  /\ selectedLogId' = Some(Collection(whData)[i].id)
  /\ lastOp' = [op |-> "keyDown", id |-> Collection(whData)[i].id]
  /\ UNCHANGED <<screen, statusFilter, whServerPages, whData, whLoading, whError, whIsLoading,
                 whPendingSearch, whSearchTerm, fetchMoreLoading, whInFlight, wlVars,
                 notLists>>

(***************************************************************************)
(* groupedLogs and the rows rendered from it.  An object whose keys are     *)
(* date strings lists them in insertion order: it is a sequence of          *)
(* [key, items] here.                                                        *)
(***************************************************************************)
MaxLogs == 3

MaxCreatedAt == 3

WEBHOOK_ITEM_NAV_KEY == "webhook-item-"

\* formatTimeOrgaTZ(item.createdAt): the day of a time, two times a day
formatTimeOrgaTZ(createdAt) == [date |-> createdAt \div 2]

\* a log of a collection: its id and its createdAt
DatedLog(id, createdAt) == [id |-> id, createdAt |-> createdAt]

\* the collections a query can answer with: up to MaxLogs logs of distinct
\* ids, created at any time and listed in any order of time
LogCollections ==
  UNION {{[i \in 1 .. n |-> DatedLog(i, t[i])] : t \in [1 .. n -> 0 .. MaxCreatedAt]} :
           n \in 0 .. MaxLogs}

\* the reducer, had it put the item in front of its group
GroupedStepInFront(acc, item) ==
  LET date == formatTimeOrgaTZ(item.createdAt)
      at == {k \in DOMAIN acc : acc[k].key = date}
  IN IF at = {}
       THEN Append(acc, [key |-> date, items |-> <<item>>])
       ELSE [k \in DOMAIN acc |->
               IF k \in at THEN [key |-> date, items |-> <<item>> \o acc[k].items]
                           ELSE acc[k]]

\* the reducer: acc[date] = [...(acc[date] ? acc[date] : []), item]
GroupedStep(acc, item) ==
  LET date == formatTimeOrgaTZ(item.createdAt)
      at == {k \in DOMAIN acc : acc[k].key = date}
  IN IF at = {}
       THEN Append(acc, [key |-> date, items |-> <<item>>])
       ELSE [k \in DOMAIN acc |->
               IF k \in at THEN [key |-> date, items |-> Append(acc[k].items, item)]
                           ELSE acc[k]]

RECURSIVE Reduce(_, _)
Reduce(collection, acc) ==
  IF collection = <<>> THEN acc
                       ELSE Reduce(Tail(collection), GroupedStep(acc, Head(collection)))

\* useMemo(() => (data?.webhooks?.collection || []).reduce(..., {}))
groupedLogs == Reduce(Collection(whData), <<>>)

\* the rows of one group: index += 1, then the row with its navigationProps
RECURSIVE GroupRows(_, _)
GroupRows(items, index) ==
  IF items = <<>>
    THEN <<>>
    ELSE <<[id |-> [key |-> WEBHOOK_ITEM_NAV_KEY, index |-> index + 1],
            dataId |-> Head(items).id,
            date |-> formatTimeOrgaTZ(Head(items).createdAt)]>>
         \o GroupRows(Tail(items), index + 1)

\* Object.keys(groupedLogs).map(...): the groups one after the other, index
\* running on from one group to the next
RECURSIVE GroupsRows(_, _)
GroupsRows(groups, index) ==
  IF groups = <<>>
    THEN <<>>
    ELSE GroupRows(Head(groups).items, index)
         \o GroupsRows(Tail(groups), index + Len(Head(groups).items))

\* let index = -1, then the rows of the ListContent
RenderedRows == IF WhListShown THEN GroupsRows(groupedLogs, -1) ELSE <<>>

\* the query answers with a collection of one page
WhCollectionResult(i, collection) ==
  /\ screen = "webhookLogs"
  /\ i \in DOMAIN whInFlight
  /\ whInFlight[i].kind \in {"query", "refetch"}
  /\ LET newData == Some([collection |-> collection,
                          metadata |-> [currentPage |-> 1, totalPages |-> 1]])
     IN /\ whData' = newData
        /\ selectedLogId' = SelectedLogIdEffect(whData, newData, selectedLogId)
  /\ whError' = FALSE
  /\ whInFlight' = RemoveAt(whInFlight, i)
  /\ whLoading' = (whInFlight' # <<>>)
  /\ whIsLoading' = (whLoading' \/ whPendingSearch # None)
  /\ lastOp' = [op |-> "collectionResult"]
  /\ UNCHANGED <<screen, statusFilter, whServerPages, whPendingSearch, whSearchTerm,
                 fetchMoreLoading, wlVars, notLists>>

\* onClick of a filter button: the router shows the page under the new tab and
\* the query runs again with the variables of that tab
WhFilterClick(target) ==
  /\ screen = "webhookLogs"
  /\ ~WhErrorShown
  /\ target \in FilterTargets
  /\ statusFilter' = target
  /\ IF target = statusFilter
       THEN UNCHANGED <<whData, whLoading, whIsLoading, whInFlight, selectedLogId>>
       ELSE LET kept == SelectSeq(whInFlight, LAMBDA r : r.kind = "fetchMore")
            IN /\ Len(kept) < MaxInFlight
               /\ whInFlight' = Append(kept, [kind |-> "query", page |-> 1,
                                              searchTerm |-> whSearchTerm,
                                              status |-> target])
               /\ whData' = None
               /\ selectedLogId' = SelectedLogIdEffect(whData, None, selectedLogId)
               /\ whLoading' = TRUE
               /\ whIsLoading' = TRUE
  /\ lastOp' = [op |-> "filterClick", tab |-> target]
  /\ UNCHANGED <<screen, whServerPages, whError, whPendingSearch, whSearchTerm,
                 fetchMoreLoading, wlVars, notLists>>

(***************************************************************************)
(* The customer wallet list.  wlServer is the customer's wallets as the     *)
(* server lists them; a page of the model carries WalletsPerPage of them.   *)
(***************************************************************************)
MaxWallets == 2

WalletsPerPage == 1

WalletKinds ==
  { [status |-> "active", creditsBalance |-> 1],
    [status |-> "active", creditsBalance |-> 0],
    [status |-> "terminated", creditsBalance |-> 0] }

ServerWallets == UNION { [1 .. n -> WalletKinds] : n \in 0 .. MaxWallets }

WalletTotalPages(server) == (Len(server) + WalletsPerPage - 1) \div WalletsPerPage

WalletPage(server, page) ==
  [k \in 1 .. (Min(page * WalletsPerPage, Len(server)) - Min((page - 1) * WalletsPerPage,
                                                              Len(server))) |->
     LET i == (page - 1) * WalletsPerPage + k
     IN [id |-> i, status |-> server[i].status, creditsBalance |-> server[i].creditsBalance]]

list == Collection(wlData)

hasNoWallet == Len(list) = 0

HasActiveWallet == \E i \in DOMAIN list : list[i].status = "active"

\* list.find((wallet) => wallet.status === WalletStatusEnum.Active), when there is one
activeWallet ==
  list[CHOOSE i \in DOMAIN list :
         /\ list[i].status = "active"
         /\ \A j \in 1 .. (i - 1) : list[j].status # "active"]

hasAnyPermissionsToShowActions == hasPermissions(WalletPermissions)

WlErrorShown == ~wlLoading /\ wlError

\* the page section is on screen and no dialog covers it
WlSectionShown == wlLocation = "customer" /\ ~WlErrorShown /\ wlDialog = "none"

ShowCreateWalletButton ==
  /\ hasAnyPermissionsToShowActions
  /\ ~HasActiveWallet /\ hasPermissions({"walletsCreate"})

ShowWalletActionsMenu ==
  /\ hasAnyPermissionsToShowActions
  /\ ~(~HasActiveWallet /\ hasPermissions({"walletsCreate"}))

ShowTopUpButton == ShowWalletActionsMenu /\ hasPermissions({"walletsTopUp"})

ShowEditWalletButton == ShowWalletActionsMenu /\ hasPermissions({"walletsUpdate"})

\* the void and terminate entries under the permission of the edit entry
ShowVoidAndTerminateButtonsOnUpdate ==
  ShowWalletActionsMenu /\ hasPermissions({"walletsUpdate"})

ShowVoidAndTerminateButtons == ShowWalletActionsMenu /\ hasPermissions({"walletsTerminate"})

\* disabled={(activeWallet?.creditsBalance || 0) <= 0}
VoidDisabled == (IF HasActiveWallet THEN activeWallet.creditsBalance ELSE 0) <= 0

\* the three WalletAccordionSkeleton
WlSkeletonShown == wlLocation = "customer" /\ ~WlErrorShown /\ wlLoading

\* the empty-state text shown whenever the list is empty, loading or not
WlEmptyShownWhileLoading == wlLocation = "customer" /\ ~WlErrorShown /\ hasNoWallet

\* the empty-state text
WlEmptyShown ==
  wlLocation = "customer" /\ ~WlErrorShown /\ ~wlLoading /\ (~wlLoading /\ hasNoWallet)

\* the InfiniteScroll of the wallets is mounted
WlListShown == wlLocation = "customer" /\ ~WlErrorShown /\ ~wlLoading /\ ~hasNoWallet

\* the three dialogs are mounted with an active wallet only: without one the
\* refs hold no dialog and openDialog is not called
OpenedDialog(dialog) == IF HasActiveWallet THEN dialog ELSE "none"

\* useGetCustomerWalletListQuery answers with the first page, or fails
WlQueryResult(ok) ==
  /\ screen = "customerWallets"
  /\ wlLoading
  /\ wlLoading' = FALSE
  /\ wlError' = ~ok
  /\ wlData' =
       IF ok
         THEN Some([collection |-> WalletPage(wlServer, 1),
                    metadata |-> [currentPage |-> 1,
                                  totalPages |-> WalletTotalPages(wlServer)]])
         ELSE None
  /\ lastOp' = [op |-> "queryResult", ok |-> ok]
  /\ UNCHANGED <<screen, wlServer, wlInFlight, wlDialog, wlLocation, whVars, notLists>>

\* onBottom of the InfiniteScroll
WlOnBottom ==
  /\ screen = "customerWallets"
  /\ WlListShown
  /\ LET currentPage == CurrentPage(wlData)
         totalPages == TotalPages(wlData)
     IN IF currentPage < totalPages /\ ~wlLoading
          THEN /\ Len(wlInFlight) < MaxInFlight
               /\ wlInFlight' = Append(wlInFlight, currentPage + 1)
               /\ lastOp' = [op |-> "onBottom", list |-> "customerWallets",
                             requested |-> Some(currentPage + 1)]
          ELSE /\ lastOp' = [op |-> "onBottom", list |-> "customerWallets",
                             requested |-> None]
               /\ UNCHANGED wlInFlight
  /\ UNCHANGED <<screen, wlServer, wlData, wlLoading, wlError, wlDialog, wlLocation,
                 whVars, notLists>>

\* a fetchMore settles: its page is appended to the list
WlFetchMoreResult(i, ok) ==
  /\ screen = "customerWallets"
  /\ i \in DOMAIN wlInFlight
  /\ wlInFlight' = RemoveAt(wlInFlight, i)
  /\ wlData' =
       IF ok /\ wlData # None
         THEN Some([collection |-> list \o WalletPage(wlServer, wlInFlight[i]),
                    metadata |-> [currentPage |-> wlInFlight[i],
                                  totalPages |-> WalletTotalPages(wlServer)]])
         ELSE wlData
  /\ lastOp' = [op |-> "fetchMoreResult", list |-> "customerWallets", ok |-> ok]
  /\ UNCHANGED <<screen, wlServer, wlLoading, wlError, wlDialog, wlLocation, whVars,
                 notLists>>

\* the buttons of the section's customAction
WlCreateClick ==
  /\ screen = "customerWallets"
  /\ WlSectionShown /\ ShowCreateWalletButton
  /\ wlLocation' = "createWallet"
  /\ lastOp' = [op |-> "walletAction", action |-> "create",
                active |-> HasActiveWallet]
  /\ UNCHANGED <<screen, wlServer, wlData, wlLoading, wlError, wlInFlight, wlDialog,
                 whVars, notLists>>

WlTopUpClick ==
  /\ screen = "customerWallets"
  /\ WlSectionShown /\ ShowTopUpButton
  /\ wlDialog' = OpenedDialog("topup")
  /\ lastOp' = [op |-> "walletAction", action |-> "topUp",
                active |-> HasActiveWallet]
  /\ UNCHANGED <<screen, wlServer, wlData, wlLoading, wlError, wlInFlight, wlLocation,
                 whVars, notLists>>

WlEditClick ==
  /\ screen = "customerWallets"
  /\ WlSectionShown /\ ShowEditWalletButton
  /\ wlLocation' = "editWallet"
  /\ lastOp' = [op |-> "walletAction", action |-> "edit",
                active |-> HasActiveWallet]
  /\ UNCHANGED <<screen, wlServer, wlData, wlLoading, wlError, wlInFlight, wlDialog,
                 whVars, notLists>>

WlVoidClick ==
  /\ screen = "customerWallets"
  /\ WlSectionShown /\ ShowVoidAndTerminateButtons /\ ~VoidDisabled
  /\ wlDialog' = OpenedDialog("void")
  /\ lastOp' = [op |-> "walletAction", action |-> "void",
                active |-> HasActiveWallet]
  /\ UNCHANGED <<screen, wlServer, wlData, wlLoading, wlError, wlInFlight, wlLocation,
                 whVars, notLists>>

WlTerminateClick ==
  /\ screen = "customerWallets"
  /\ WlSectionShown /\ ShowVoidAndTerminateButtons
  /\ wlDialog' = OpenedDialog("terminate")
  /\ lastOp' = [op |-> "walletAction", action |-> "terminate",
                active |-> HasActiveWallet]
  /\ UNCHANGED <<screen, wlServer, wlData, wlLoading, wlError, wlInFlight, wlLocation,
                 whVars, notLists>>

\* the open dialog is closed
WlDialogClose ==
  /\ screen = "customerWallets"
  /\ wlDialog # "none"
  /\ wlDialog' = "none"
  /\ lastOp' = [op |-> "dialogClose"]
  /\ UNCHANGED <<screen, wlServer, wlData, wlLoading, wlError, wlInFlight, wlLocation,
                 whVars, notLists>>

(***************************************************************************)
(* SpecLists: one of the two lists is mounted and its first query runs.     *)
(***************************************************************************)
InitLists ==
  /\ CnIdle /\ IntegrationsIdle /\ ViewsIdle
  /\ lastOp = NoOp
  /\ whPendingSearch = None /\ whSearchTerm = "" /\ whData = None /\ whError = FALSE
  /\ whServerPages = 0 /\ fetchMoreLoading = FALSE /\ selectedLogId = None
  /\ wlData = None /\ wlError = FALSE /\ wlInFlight = <<>> /\ wlDialog = "none"
  /\ wlLocation = "customer"
  /\ \/ /\ screen = "webhookLogs"
        /\ statusFilter \in TabParams
        /\ whInFlight = <<[kind |-> "query", page |-> 1, searchTerm |-> "",
                           status |-> Status]>>
        /\ whLoading = TRUE /\ whIsLoading = TRUE
        /\ wlServer = <<>> /\ wlLoading = FALSE
        /\ PermissionsIdle
     \/ /\ screen = "customerWallets"
        /\ statusFilter = None
        /\ whInFlight = <<>> /\ whLoading = FALSE /\ whIsLoading = FALSE
        /\ wlServer \in ServerWallets /\ wlLoading = TRUE
        /\ granted \in SUBSET WalletPermissions
        /\ permissionsMode \in {"every", "some"}

NextLists ==
  \/ \E term \in SearchTerms : WhSearchInput(term)
  \/ WhDebouncedSearch
  \/ WhReloadClick
  \/ \E i \in 1 .. MaxInFlight, totalPages \in 0 .. MaxPages, ok \in BOOLEAN :
       WhQueryResult(i, totalPages, ok)
  \/ WhOnBottom
  \/ \E i \in 1 .. MaxInFlight, ok \in BOOLEAN : WhFetchMoreResult(i, ok)
  \/ \E i \in 1 .. MaxPages : WhLogClick(i)
  \/ \E i \in 1 .. MaxPages : WhKeyDown(i)
  \/ \E target \in FilterTargets : WhFilterClick(target)
  \/ \E ok \in BOOLEAN : WlQueryResult(ok)
  \/ WlOnBottom
  \/ \E i \in 1 .. MaxInFlight, ok \in BOOLEAN : WlFetchMoreResult(i, ok)
  \/ WlCreateClick
  \/ WlTopUpClick
  \/ WlEditClick
  \/ WlVoidClick
  \/ WlTerminateClick
  \/ WlDialogClose

SpecLists == InitLists /\ [][NextLists]_vars

(***************************************************************************)
(* SpecGrouping: the webhook logs page whose query answers with one page of *)
(* logs of any times.                                                        *)
(***************************************************************************)
InitGrouping ==
  /\ CnIdle /\ IntegrationsIdle /\ PermissionsIdle /\ ViewsIdle
  /\ lastOp = NoOp
  /\ screen = "webhookLogs"
  /\ statusFilter = None
  /\ whPendingSearch = None /\ whSearchTerm = "" /\ whData = None /\ whError = FALSE
  /\ whServerPages = 1 /\ fetchMoreLoading = FALSE /\ selectedLogId = None
  /\ whInFlight = <<[kind |-> "query", page |-> 1, searchTerm |-> "", status |-> None]>>
  /\ whLoading = TRUE /\ whIsLoading = TRUE
  /\ wlServer = <<>> /\ wlData = None /\ wlLoading = FALSE /\ wlError = FALSE
  /\ wlInFlight = <<>> /\ wlDialog = "none" /\ wlLocation = "customer"

NextGrouping ==
  \/ \E i \in 1 .. MaxInFlight, collection \in LogCollections :
       WhCollectionResult(i, collection)
  \/ \E i \in 1 .. MaxLogs : WhLogClick(i)
  \/ \E i \in 1 .. MaxLogs : WhKeyDown(i)

SpecGrouping == InitGrouping /\ [][NextGrouping]_vars

(***************************************************************************)
(* Claims about the two lists (SpecLists).                                  *)
(***************************************************************************)
\* the data of the list whose onBottom ran
OnBottomData(op) == IF op.list = "webhookLogs" THEN whData ELSE wlData

\* a load of that list is in progress: its loading flag is up or one of its
\* requests has not answered yet
LoadInProgress(op) ==
  IF op.list = "webhookLogs"
    THEN whLoading \/ whIsLoading \/ whInFlight # <<>>
    ELSE wlLoading \/ wlInFlight # <<>>

\* C4: in the webhook log list and in the wallet list, onBottom issues a
\* fetchMore only when currentPage < totalPages and no load is in progress, the
\* page it asks for is currentPage + 1, which is never above totalPages, and it
\* asks for nothing when the metadata is absent.
C4_OnBottomFetchesNextPage ==
  [][lastOp'.op = "onBottom" =>
       /\ lastOp'.requested # None =>
            /\ CurrentPage(OnBottomData(lastOp')) < TotalPages(OnBottomData(lastOp'))
            /\ ~LoadInProgress(lastOp')
            /\ lastOp'.requested = Some(CurrentPage(OnBottomData(lastOp')) + 1)
            /\ lastOp'.requested[1] <= TotalPages(OnBottomData(lastOp'))
       /\ OnBottomData(lastOp') = None => lastOp'.requested = None]_vars

\* the permission each wallet action is rendered under
WalletActionPermission(action) ==
  CASE action = "create" -> "walletsCreate"
    [] action = "topUp" -> "walletsTopUp"
    [] action = "edit" -> "walletsUpdate"
    [] action \in {"void", "terminate"} -> "walletsTerminate"

\* C6: in the wallet list no wallet action is rendered unless
\* hasPermissions of the four wallet permissions holds; the create button needs
\* walletsCreate, the top-up entry walletsTopUp, the edit entry walletsUpdate,
\* the void and terminate entries walletsTerminate; so does every action taken.
C6_WalletActionsNeedPermissions ==
  /\ (\/ ShowCreateWalletButton \/ ShowWalletActionsMenu \/ ShowTopUpButton
      \/ ShowEditWalletButton \/ ShowVoidAndTerminateButtons)
       => hasPermissions(WalletPermissions)
  /\ ShowCreateWalletButton => hasPermissions({"walletsCreate"})
  /\ ShowTopUpButton => hasPermissions({"walletsTopUp"})
  /\ ShowEditWalletButton => hasPermissions({"walletsUpdate"})
  /\ ShowVoidAndTerminateButtons => hasPermissions({"walletsTerminate"})
  /\ lastOp.op = "walletAction" =>
       /\ hasPermissions(WalletPermissions)
       /\ hasPermissions({WalletActionPermission(lastOp.action)})

\* C6 witness: a member holding walletsTerminate alone, under the reading where
\* some permission of a list is enough, has opened the terminate dialog of the
\* active wallet from a menu with no top-up and no edit entry.
C6_Witness ==
  /\ screen = "customerWallets"
  /\ lastOp.op = "walletAction"
  /\ lastOp.action = "terminate"
  /\ wlDialog = "terminate"
  /\ granted = {"walletsTerminate"}
  /\ ShowWalletActionsMenu
  /\ ~ShowTopUpButton /\ ~ShowEditWalletButton

(***************************************************************************)
(* The integration settings pages: the Moneyhash and the Netsuite           *)
(* connection lists and the Moneyhash details page.  igServer is the set of *)
(* connections of the kind the page is about.                               *)
(***************************************************************************)
MaxConnections == 3

PROVIDER_CONNECTION_LIMIT == 2

IntegrationPermissions ==
  {"organizationIntegrationsCreate", "organizationIntegrationsUpdate",
   "organizationIntegrationsDelete"}

MoneyhashListPage == Route("MONEYHASH_INTEGRATION_ROUTE", "community")

NetsuiteListPage == Route("NETSUITE_INTEGRATION_ROUTE", "lago")

MoneyhashDetailsPage == Route("MONEYHASH_INTEGRATION_DETAILS_ROUTE", "community")

IntegrationsOverview(integrationGroup) == Route("INTEGRATIONS_ROUTE", integrationGroup)

\* the ids of a set in ascending order, at most limit of them
RECURSIVE FirstIds(_, _)
FirstIds(ids, limit) ==
  IF ids = {} \/ limit = 0
    THEN <<>>
    ELSE LET least == CHOOSE i \in ids : \A j \in ids : i <= j
         IN <<least>> \o FirstIds(ids \ {least}, limit - 1)

\* what the query of a page returns; the list pages ask for 1000 connections,
\* more than the server of the model holds
IntegrationsQueryData ==
  IF igLocation = MoneyhashDetailsPage
    THEN [paymentProvider |->
            IF igIntegrationId # None /\ igIntegrationId[1] \in igServer
              THEN igIntegrationId
              ELSE None,
          collection |-> FirstIds(igServer, PROVIDER_CONNECTION_LIMIT)]
    ELSE [paymentProvider |-> None, collection |-> FirstIds(igServer, MaxConnections)]

\* data?.paymentProviders?.collection, data?.integrations?.collection
connections == IF igData = None THEN None ELSE Some(igData[1].collection)

\* data?.paymentProvider
moneyhashPaymentProvider == IF igData = None THEN None ELSE igData[1].paymentProvider

canCreateIntegration == hasPermissions({"organizationIntegrationsCreate"})

canEditIntegration == hasPermissions({"organizationIntegrationsUpdate"})

canDeleteIntegration == hasPermissions({"organizationIntegrationsDelete"})

\* the list callback handed out whenever the list is not empty
MoneyhashCallbackForAnyList ==
  IF connections # None /\ Len(connections[1]) >= 1
    THEN [defined |-> TRUE, route |-> IntegrationsOverview("community")]
    ELSE NoCallback

\* deleteDialogCallback of MoneyhashIntegrations
MoneyhashDeleteDialogCallback ==
  IF connections # None /\ Len(connections[1]) = 1
    THEN [defined |-> TRUE, route |-> IntegrationsOverview("community")]
    ELSE NoCallback

\* deleteDialogCallback of NetsuiteIntegrations
NetsuiteDeleteDialogCallback ==
  IF connections # None /\ Len(connections[1]) = 1
    THEN [defined |-> TRUE, route |-> IntegrationsOverview("lago")]
    ELSE NoCallback

\* the details callback that leaves for the overview with two providers too
DetailsCallbackAboveLimit ==
  [defined |-> TRUE,
   route |-> IF (IF connections = None THEN 0 ELSE Len(connections[1]))
                  > PROVIDER_CONNECTION_LIMIT
               THEN MoneyhashListPage
               ELSE IntegrationsOverview("community")]

\* deleteDialogCallback of MoneyhashIntegrationDetails: the closure of a render
\* sees the data of that render
DetailsDeleteDialogCallback ==
  [defined |-> TRUE,
   route |-> IF (IF connections = None THEN 0 ELSE Len(connections[1]))
                  >= PROVIDER_CONNECTION_LIMIT
               THEN MoneyhashListPage
               ELSE IntegrationsOverview("community")]

deleteDialogCallback ==
  CASE igLocation = MoneyhashListPage -> MoneyhashDeleteDialogCallback
    [] igLocation = NetsuiteListPage -> NetsuiteDeleteDialogCallback
    [] igLocation = MoneyhashDetailsPage -> DetailsDeleteDialogCallback

OnListPage == igLocation \in {MoneyhashListPage, NetsuiteListPage}

\* the create button of a list page; the Netsuite page asks for no permission
ShowCreateIntegrationButton ==
  \/ igLocation = MoneyhashListPage /\ canCreateIntegration
  \/ igLocation = NetsuiteListPage

\* the Popper of a connection of the list, of the header of the details page
ShowIntegrationActionsMenu ==
  \/ igLocation \in {MoneyhashListPage, MoneyhashDetailsPage}
       /\ (canEditIntegration \/ canDeleteIntegration)
  \/ igLocation = NetsuiteListPage

ShowEditIntegrationButton ==
  \/ igLocation \in {MoneyhashListPage, MoneyhashDetailsPage}
       /\ ShowIntegrationActionsMenu /\ canEditIntegration
  \/ igLocation = NetsuiteListPage

\* the delete entry shown to whoever may edit
ShowDeleteIntegrationButtonOnUpdate ==
  \/ igLocation \in {MoneyhashListPage, MoneyhashDetailsPage}
       /\ ShowIntegrationActionsMenu /\ canEditIntegration
  \/ igLocation = NetsuiteListPage

ShowDeleteIntegrationButton ==
  \/ igLocation \in {MoneyhashListPage, MoneyhashDetailsPage}
       /\ ShowIntegrationActionsMenu /\ canDeleteIntegration
  \/ igLocation = NetsuiteListPage

\* the edit button of the details page's section, disabled={loading}
ShowSectionEditButton == igLocation = MoneyhashDetailsPage /\ canEditIntegration

\* the details page renders the last ApiKeyItem, moneyhashPaymentProvider.flowId,
\* whenever loading is false: without a provider the render throws a TypeError
DetailsRenderThrows ==
  igLocation = MoneyhashDetailsPage /\ ~igLoading /\ moneyhashPaymentProvider = None

\* the section edit button can be pressed: disabled={loading}
SectionEditEnabled == ShowSectionEditButton /\ ~igLoading

\* the connections are listed once the query is done
ConnectionsListed == OnListPage /\ ~igLoading /\ connections # None

\* what a handler of an integration page leaves alone
notIntegrations == <<cnVars, permVars, listVars, viewVars>>

\* the route is entered: the page mounts and its query starts, unless the
\* details page has no integrationId (skip)
Mounted(route, integrationId) ==
  /\ igLocation' = route
  /\ igIntegrationId' = integrationId
  /\ igData' = None
  /\ igLoading' = (route \in {MoneyhashListPage, NetsuiteListPage}
                   \/ (route = MoneyhashDetailsPage /\ integrationId # None))
  /\ igDialog' = NoDialog

\* the page's query answers, or fails
IgQueryResult(ok) ==
  /\ igLoading
  /\ igLoading' = FALSE
  /\ igData' = IF ok THEN Some(IntegrationsQueryData) ELSE None
  /\ lastOp' = [op |-> "queryResult", ok |-> ok]
  /\ UNCHANGED <<igLocation, igIntegrationId, igServer, igDialog, notIntegrations>>

\* the create button of a list page
IgCreateClick ==
  /\ OnListPage /\ igDialog = NoDialog
  /\ ShowCreateIntegrationButton
  /\ igDialog' = [kind |-> "add", provider |-> None, callback |-> NoCallback]
  /\ lastOp' = [op |-> "openDialog", kind |-> "create"]
  /\ UNCHANGED <<igLocation, igIntegrationId, igServer, igData, igLoading, notIntegrations>>

\* the edit entry of the Popper of connection i of a list page
IgListEditClick(i) ==
  /\ ConnectionsListed /\ igDialog = NoDialog
  /\ i \in DOMAIN connections[1]
  /\ ShowEditIntegrationButton
  /\ igDialog' = [kind |-> "edit", provider |-> Some(connections[1][i]),
                  callback |-> deleteDialogCallback]
  /\ lastOp' = [op |-> "openDialog", kind |-> "edit"]
  /\ UNCHANGED <<igLocation, igIntegrationId, igServer, igData, igLoading, notIntegrations>>

\* the delete entry of the same Popper
IgListDeleteClick(i) ==
  /\ ConnectionsListed /\ igDialog = NoDialog
  /\ i \in DOMAIN connections[1]
  /\ ShowDeleteIntegrationButton
  /\ igDialog' = [kind |-> "delete", provider |-> Some(connections[1][i]),
                  callback |-> deleteDialogCallback]
  /\ lastOp' = [op |-> "openDialog", kind |-> "delete"]
  /\ UNCHANGED <<igLocation, igIntegrationId, igServer, igData, igLoading, notIntegrations>>

\* the link of connection i of the Moneyhash list
IgListItemClick(i) ==
  /\ igLocation = MoneyhashListPage
  /\ ConnectionsListed /\ igDialog = NoDialog
  /\ i \in DOMAIN connections[1]
  /\ Mounted(MoneyhashDetailsPage, Some(connections[1][i]))
  /\ lastOp' = [op |-> "navigate"]
  /\ UNCHANGED <<igServer, notIntegrations>>

\* the edit entry of the header Popper and the edit button of the section of
\* the details page; the section button is disabled while loading
IgDetailsEditClick(fromSection) ==
  /\ igLocation = MoneyhashDetailsPage /\ igDialog = NoDialog
  /\ ~DetailsRenderThrows
  /\ IF fromSection THEN SectionEditEnabled ELSE ShowEditIntegrationButton
  /\ igDialog' = [kind |-> "edit", provider |-> moneyhashPaymentProvider,
                  callback |-> deleteDialogCallback]
  /\ lastOp' = [op |-> "openDialog", kind |-> "edit"]
  /\ UNCHANGED <<igLocation, igIntegrationId, igServer, igData, igLoading, notIntegrations>>

\* the delete entry of the header Popper of the details page
IgDetailsDeleteClick ==
  /\ igLocation = MoneyhashDetailsPage /\ igDialog = NoDialog
  /\ ~DetailsRenderThrows
  /\ ShowDeleteIntegrationButton
  /\ igDialog' = [kind |-> "delete", provider |-> moneyhashPaymentProvider,
                  callback |-> deleteDialogCallback]
  /\ lastOp' = [op |-> "openDialog", kind |-> "delete"]
  /\ UNCHANGED <<igLocation, igIntegrationId, igServer, igData, igLoading, notIntegrations>>

\* the open dialog is closed without a mutation
IgDialogClose ==
  /\ igDialog # NoDialog
  /\ igDialog' = NoDialog
  /\ lastOp' = [op |-> "dialogClose"]
  /\ UNCHANGED <<igLocation, igIntegrationId, igServer, igData, igLoading, notIntegrations>>

\* the create dialog is submitted: the server holds one more connection and
\* the list is fetched again
IgAddSubmit ==
  /\ igDialog.kind = "add"
  /\ Cardinality(igServer) < MaxConnections
  /\ LET id == CHOOSE i \in (1 .. MaxConnections) \ igServer :
                 \A j \in (1 .. MaxConnections) \ igServer : i <= j
     IN /\ igServer' = igServer \cup {id}
        /\ igData' =
             IF igData = None
               THEN None
               ELSE Some([igData[1] EXCEPT
                            !.collection = FirstIds(igServer', MaxConnections)])
  /\ igDialog' = NoDialog
  /\ lastOp' = [op |-> "addSubmit"]
  /\ UNCHANGED <<igLocation, igIntegrationId, igLoading, notIntegrations>>

\* the delete dialog is confirmed.  When the mutation destroys the connection
\* the dialog runs the callback it was opened with, if it got one; without a
\* callback the page stays and loses the connection from its data
IgDeleteConfirm(ok) ==
  /\ igDialog.kind = "delete"
  /\ LET destroyed == ok /\ igDialog.provider # None /\ igDialog.provider[1] \in igServer
     IN /\ lastOp' = [op |-> "deleteConfirm", from |-> igLocation, destroyed |-> destroyed]
        /\ IF destroyed
             THEN /\ igServer' = igServer \ {igDialog.provider[1]}
                  /\ IF igDialog.callback.defined
                       THEN Mounted(igDialog.callback.route, None)
                       ELSE /\ igData' =
                                 Some([paymentProvider |->
                                         IF moneyhashPaymentProvider = igDialog.provider
                                           THEN None
                                           ELSE moneyhashPaymentProvider,
                                       collection |->
                                         SelectSeq(connections[1],
                                                   LAMBDA c : c # igDialog.provider[1])])
                            /\ igDialog' = NoDialog
                            /\ UNCHANGED <<igLocation, igIntegrationId, igLoading>>
             ELSE /\ igDialog' = NoDialog
                  /\ UNCHANGED <<igLocation, igIntegrationId, igServer, igData, igLoading>>
  /\ UNCHANGED notIntegrations

(***************************************************************************)
(* SpecIntegrations: one of the three pages is opened.                      *)
(***************************************************************************)
InitIntegrations ==
  /\ CnIdle /\ ListsIdle /\ ViewsIdle
  /\ lastOp = NoOp
  /\ granted \in SUBSET IntegrationPermissions
  /\ permissionsMode \in {"every", "some"}
  /\ igServer \in SUBSET (1 .. MaxConnections)
  /\ igData = None
  /\ igDialog = NoDialog
  /\ \/ /\ igLocation \in {MoneyhashListPage, NetsuiteListPage}
        /\ igIntegrationId = None
        /\ igLoading = TRUE
     \/ /\ igLocation = MoneyhashDetailsPage
        /\ igIntegrationId \in {None} \cup {Some(i) : i \in 1 .. MaxConnections}
        /\ igLoading = (igIntegrationId # None)

NextIntegrations ==
  \/ \E ok \in BOOLEAN : IgQueryResult(ok)
  \/ IgCreateClick
  \/ \E i \in 1 .. MaxConnections : IgListEditClick(i)
  \/ \E i \in 1 .. MaxConnections : IgListDeleteClick(i)
  \/ \E i \in 1 .. MaxConnections : IgListItemClick(i)
  \/ \E fromSection \in BOOLEAN : IgDetailsEditClick(fromSection)
  \/ IgDetailsDeleteClick
  \/ IgDialogClose
  \/ IgAddSubmit
  \/ \E ok \in BOOLEAN : IgDeleteConfirm(ok)

SpecIntegrations == InitIntegrations /\ [][NextIntegrations]_vars

(***************************************************************************)
(* Components without state: PlanDetailsChargesSection and                  *)
(* FiltersPanelItemTypeSwitch (src/unnamed/part_001), the Status badge of   *)
(* the credit note form (src/unnamed/part_003).                             *)
(***************************************************************************)
MaxCharges == 2

\* what a render of a component leaves alone
notViews == <<cnVars, permVars, listVars, igVars>>

\* a charge of a plan, as far as the section reads it
Charge(id, recurring, payInAdvance, invoiceable, regroupPaidFees) ==
  [id |-> id, billableMetric |-> [recurring |-> recurring],
   payInAdvance |-> payInAdvance, invoiceable |-> invoiceable,
   regroupPaidFees |-> regroupPaidFees]

\* RegroupPaidFeesEnum.Invoice, or no regrouping
RegroupPaidFees == {"invoice", null}

\* the charges a plan can list
ChargeLists ==
  UNION {{[i \in 1 .. n |-> Charge(i, r[i], a[i], v[i], g[i])] :
            r \in [1 .. n -> BOOLEAN], a \in [1 .. n -> BOOLEAN],
            v \in [1 .. n -> BOOLEAN], g \in [1 .. n -> RegroupPaidFees]} :
           n \in 0 .. MaxCharges}

\* the plan prop: absent, without charges, or with a list of charges
Plans == {None, Some([charges |-> None])} \cup {Some([charges |-> Some(c)]) : c \in ChargeLists}

\* the reducer, had it put each charge in front of its list
ChargesReducerInFront(acc, charge) ==
  IF ~charge.billableMetric.recurring
    THEN [acc EXCEPT !.meteredCharges = <<charge>> \o @]
    ELSE [acc EXCEPT !.recurringCharges = <<charge>> \o @]

\* the callback of reduce: push to meteredCharges or to recurringCharges
ChargesReducer(acc, charge) ==
  IF ~charge.billableMetric.recurring
    THEN [acc EXCEPT !.meteredCharges = Append(@, charge)]
    ELSE [acc EXCEPT !.recurringCharges = Append(@, charge)]

RECURSIVE ChargesReduce(_, _)
ChargesReduce(charges, acc) ==
  IF charges = <<>> THEN acc
                    ELSE ChargesReduce(Tail(charges), ChargesReducer(acc, Head(charges)))

\* plan?.charges?.reduce(...) ?? {}: the two lists, or neither
SplitCharges(plan) ==
  IF plan = None \/ plan[1].charges = None
    THEN [meteredCharges |-> None, recurringCharges |-> None]
    ELSE LET acc == ChargesReduce(plan[1].charges[1],
                                  [meteredCharges |-> <<>>, recurringCharges |-> <<>>])
         IN [meteredCharges |-> Some(acc.meteredCharges),
             recurringCharges |-> Some(acc.recurringCharges)]

\* an invoicing strategy that does not look at regroupPaidFees
InvoicingStrategyWithoutRegroup(charge) ==
  IF ~charge.payInAdvance THEN "text_66968fba80f8f89a8aefdec0"
  ELSE IF charge.invoiceable THEN "text_66968fba80f8f89a8aefdebf"
  ELSE "text_6682c52081acea9052074686"

\* the value of the invoicing strategy line of a metered charge
InvoicingStrategy(charge) ==
  IF ~charge.payInAdvance THEN "text_66968fba80f8f89a8aefdec0"
  ELSE IF charge.invoiceable THEN "text_66968fba80f8f89a8aefdebf"
  ELSE IF charge.regroupPaidFees = "invoice" THEN "text_66968fba80f8f89a8aefdec0"
  ELSE "text_6682c52081acea9052074686"

\* {!!meteredCharges?.length && (<Stack> heading, one Accordion a charge </Stack>)}
MeteredSection(charges) ==
  IF charges # None /\ Len(charges[1]) # 0
    THEN Some([heading |-> "text_64d2713ec021c6005ef64e03",
               accordions |-> [i \in DOMAIN charges[1] |->
                                 [key |-> i - 1, charge |-> charges[1][i],
                                  invoicingStrategy |-> InvoicingStrategy(charges[1][i])]]])
    ELSE None

\* {!!recurringCharges?.length && (<Stack> heading, one Accordion a charge </Stack>)}
RecurringSection(charges) ==
  IF charges # None /\ Len(charges[1]) # 0
    THEN Some([heading |-> "text_64d271e20a9c11005bd6688a",
               accordions |-> [i \in DOMAIN charges[1] |->
                                 [key |-> i - 1, charge |-> charges[1][i]]]])
    ELSE None

\* what PlanDetailsChargesSection returns inside its Container
PlanDetailsChargesSection(plan) ==
  [metered |-> MeteredSection(SplitCharges(plan).meteredCharges),
   recurring |-> RecurringSection(SplitCharges(plan).recurringCharges)]

RenderPlanDetailsChargesSection ==
  /\ view = "PlanDetailsChargesSection"
  /\ rendered = None
  /\ rendered' = Some(PlanDetailsChargesSection(props.plan))
  /\ lastOp' = [op |-> "render"]
  /\ UNCHANGED <<view, props, notViews>>

\* InvoicePaymentStatusTypeEnum, or no status
PaymentStatuses == {"succeeded", "pending", "failed", undefined}

\* invoice?.paymentDisputeLostAt: a date, or none
DisputeDates == {"2024-01-01T00:00:00Z", null, undefined}

\* mapStatus with the pending invoices among the default ones
mapStatusWithoutPending(type) ==
  IF type = "succeeded" THEN [type |-> "success", label |-> "succeeded"]
  ELSE [type |-> "warning", label |-> "failed"]

\* mapStatus: the switch over the payment status
mapStatus(type) ==
  IF type = "succeeded" THEN [type |-> "success", label |-> "succeeded"]
  ELSE IF type = "pending" THEN [type |-> "default", label |-> "pending"]
  ELSE [type |-> "warning", label |-> "failed"]

\* const statusMap = mapStatus(invoice?.paymentStatus)
statusMap(invoice) == mapStatus(invoice.paymentStatus)

\* the Status of the invoice card: !!invoice?.paymentDisputeLostAt ? ... : ...
InvoiceStatus(invoice) ==
  IF invoice.paymentDisputeLostAt \notin {null, undefined}
    THEN [type |-> "danger", label |-> "disputeLost"]
    ELSE statusMap(invoice)

RenderInvoiceStatus ==
  /\ view = "Status"
  /\ rendered = None
  /\ rendered' = Some(InvoiceStatus(props.invoice))
  /\ lastOp' = [op |-> "render"]
  /\ UNCHANGED <<view, props, notViews>>

\* the keys of filterTypeMap, a Record<AvailableFiltersEnum, ReactNode>
AvailableFiltersEnum ==
  {"currency", "customerExternalId", "invoiceType", "issuingDate", "partiallyPaid",
   "paymentDisputeLost", "paymentOverdue", "paymentStatus", "status", "invoiceNumber",
   "amount", "creditNoteReason", "creditNoteCreditStatus", "creditNoteRefundStatus",
   "selfBilled", "customerAccountType"}

\* the value of a filter of the form, and the callbacks a parent may hand over
FilterValues == {undefined, "", "EUR"}
SetFilterValues == {"setFilterValue#1", "setFilterValue#2"}

\* <FiltersItemX value={value} setFilterValue={setFilterValue} />
FiltersItem(component, value, setFilterValue) ==
  Some([component |-> component, value |-> value, setFilterValue |-> setFilterValue])

\* filterTypeMap[filterType]: the element of the filter type, none for null
filterTypeMap(filterType, value, setFilterValue) ==
  CASE filterType = "currency" -> FiltersItem("FiltersItemCurrency", value, setFilterValue)
    [] filterType = "customerExternalId" -> FiltersItem("FiltersItemCustomer", value, setFilterValue)
    [] filterType = "invoiceType" -> FiltersItem("FiltersItemInvoiceType", value, setFilterValue)
    [] filterType = "issuingDate" -> FiltersItem("FiltersItemIssuingDate", value, setFilterValue)
    [] filterType = "partiallyPaid" -> FiltersItem("FiltersItemPartiallyPaid", value, setFilterValue)
    [] filterType = "paymentDisputeLost" ->
         FiltersItem("FiltersItemPaymentDisputeLost", value, setFilterValue)
    [] filterType = "paymentOverdue" -> FiltersItem("FiltersItemPaymentOverdue", value, setFilterValue)
    [] filterType = "paymentStatus" -> FiltersItem("FiltersItemPaymentStatus", value, setFilterValue)
    [] filterType = "status" -> FiltersItem("FiltersItemStatus", value, setFilterValue)
    [] filterType = "invoiceNumber" -> FiltersItem("FiltersItemInvoiceNumber", value, setFilterValue)
    [] filterType = "amount" -> FiltersItem("FiltersItemAmount", value, setFilterValue)
    [] filterType = "creditNoteReason" ->
         FiltersItem("FiltersItemCreditNoteReason", value, setFilterValue)
    [] filterType = "creditNoteCreditStatus" ->
         FiltersItem("FiltersItemCreditNoteCreditStatus", value, setFilterValue)
    [] filterType = "creditNoteRefundStatus" ->
         FiltersItem("FiltersItemCreditNoteRefundStatus", value, setFilterValue)
    [] filterType = "selfBilled" -> FiltersItem("FiltersItemSelfBilled", value, setFilterValue)
    [] filterType = "customerAccountType" -> None

\* the Typography in front of the element
FilterLabel(filterType) ==
  IF filterType = "issuingDate" THEN "text_66ab42d4ece7e6b7078993e2"
  ELSE "text_66ab42d4ece7e6b7078993d0"

\* FiltersPanelItemTypeSwitch: what the component returns
FiltersPanelItemTypeSwitch(p) ==
  IF p.filterType = undefined
    THEN [placeholder |-> TRUE, label |-> None, input |-> None]
    ELSE [placeholder |-> FALSE,
          label |-> Some(FilterLabel(p.filterType)),
          input |-> filterTypeMap(p.filterType, p.value, p.setFilterValue)]

RenderFiltersPanelItemTypeSwitch ==
  /\ view = "FiltersPanelItemTypeSwitch"
  /\ rendered = None
  /\ rendered' = Some(FiltersPanelItemTypeSwitch(props))
  /\ lastOp' = [op |-> "render"]
  /\ UNCHANGED <<view, props, notViews>>

(***************************************************************************)
(* SpecViews: one of the components is given props and renders.             *)
(***************************************************************************)
InitViews ==
  /\ CnIdle /\ ListsIdle /\ PermissionsIdle /\ IntegrationsIdle
  /\ lastOp = NoOp
  /\ rendered = None
  /\ \/ /\ view = "PlanDetailsChargesSection"
        /\ props \in {[plan |-> p] : p \in Plans}
     \/ /\ view = "Status"
        /\ props \in {[invoice |-> [paymentStatus |-> t, paymentDisputeLostAt |-> d]] :
                        t \in PaymentStatuses, d \in DisputeDates}
     \/ /\ view = "FiltersPanelItemTypeSwitch"
        /\ props \in [filterType : AvailableFiltersEnum \cup {undefined},
                      value : FilterValues,
                      setFilterValue : SetFilterValues]

NextViews ==
  \/ RenderPlanDetailsChargesSection
  \/ RenderInvoiceStatus
  \/ RenderFiltersPanelItemTypeSwitch

SpecViews == InitViews /\ [][NextViews]_vars

(***************************************************************************)
(* Claims about the integration pages (SpecIntegrations).                   *)
(***************************************************************************)
OnMoneyhashPage == igLocation \in {MoneyhashListPage, MoneyhashDetailsPage}

C7_DetailsDeleteNavigation ==
  [][igLocation = MoneyhashDetailsPage =>
       /\ deleteDialogCallback.defined
       /\ deleteDialogCallback.route =
            IF connections # None /\ Len(connections[1]) >= 2
              THEN MoneyhashListPage
              ELSE IntegrationsOverview("community")
       /\ lastOp'.op = "deleteConfirm" =>
            igLocation' = IF lastOp'.destroyed
                            THEN deleteDialogCallback.route
                            ELSE igLocation]_vars

\* C7 witness: a delete confirmed on the details page destroyed the provider
\* and the Moneyhash connection list, with a connection left, is shown.
C7_Witness ==
  /\ lastOp.op = "deleteConfirm"
  /\ lastOp.from = MoneyhashDetailsPage
  /\ lastOp.destroyed
  /\ igLocation = MoneyhashListPage
  /\ igServer # {}

\* the overview a list page belongs to
OverviewOf(page) ==
  IF page = MoneyhashListPage
    THEN IntegrationsOverview("community")
    ELSE IntegrationsOverview("lago")

ExactlyOneConnection == connections # None /\ Len(connections[1]) = 1

\* C8: on the Moneyhash and Netsuite list pages the delete dialog gets a
\* callback iff the loaded list has exactly one connection, and that callback
\* goes to the page's overview; otherwise the callback is undefined and a
\* delete leaves the user on the list page.
C8_ListDeleteCallback ==
  [][OnListPage =>
       /\ deleteDialogCallback.defined <=> ExactlyOneConnection
       /\ deleteDialogCallback.defined =>
            deleteDialogCallback.route = OverviewOf(igLocation)
       /\ (lastOp'.op = "openDialog" /\ lastOp'.kind = "delete") =>
            igDialog'.callback = deleteDialogCallback
       /\ lastOp'.op = "deleteConfirm" =>
            igLocation' = IF lastOp'.destroyed /\ ExactlyOneConnection
                            THEN OverviewOf(igLocation)
                            ELSE igLocation]_vars

\* C8 witness: the only Moneyhash connection was deleted from the list page
\* and the Community overview is shown.
C8_Witness ==
  /\ lastOp.op = "deleteConfirm"
  /\ lastOp.from = MoneyhashListPage
  /\ lastOp.destroyed
  /\ igLocation = IntegrationsOverview("community")
  /\ igServer = {}

(***************************************************************************)
(* Claims about leaving the credit note form (SpecForm).                    *)
(***************************************************************************)
\* C11: the close button pressed on a dirty form opens the warning dialog and
\* does not navigate, pressed on a form that is not dirty it navigates to the
\* invoice details overview at once and opens no dialog; the form is left only
\* for that route, and only by that press or by the dialog's continue action.
C11_CloseWarnsWhenDirty ==
  [][/\ lastOp'.op = "close" =>
          IF values # initialValues
            THEN warningDialogOpen' /\ cnLocation' = cnLocation
            ELSE cnLocation' = InvoiceOverview /\ ~warningDialogOpen'
     /\ cnLocation' # cnLocation =>
          /\ cnLocation' = InvoiceOverview
          /\ \/ lastOp'.op = "warningContinue" /\ warningDialogOpen
             \/ lastOp'.op = "close" /\ values = initialValues]_vars

\* C11 witness: the form was left through the continue action of the warning
\* dialog, with values that differ from the initial ones.
C11_Witness ==
  /\ lastOp.op = "warningContinue"
  /\ cnLocation = InvoiceOverview
  /\ values # initialValues
  /\ ~cnLoading

(***************************************************************************)
(* Claims about what the two lists render (SpecLists).                      *)
(***************************************************************************)
\* C12: the wallet list renders exactly one of four views: the error
\* placeholder iff not loading and an error is set; otherwise the skeletons iff
\* loading; otherwise the empty-state text iff the loaded list is empty;
\* otherwise the wallet accordions.  The accordions are never rendered while
\* loading nor together with the skeletons.
C12_WalletListViews ==
  (screen = "customerWallets" /\ wlLocation = "customer") =>
    /\ (WlErrorShown /\ wlLocation = "customer") <=> (~wlLoading /\ wlError)
    /\ WlSkeletonShown <=> (~(~wlLoading /\ wlError) /\ wlLoading)
    /\ WlEmptyShown <=> (~(~wlLoading /\ wlError) /\ ~wlLoading /\ Len(list) = 0)
    /\ WlListShown <=> (~(~wlLoading /\ wlError) /\ ~wlLoading /\ Len(list) # 0)
    /\ Cardinality({v \in {"error", "skeleton", "empty", "accordions"} :
                      \/ v = "error" /\ WlErrorShown
                      \/ v = "skeleton" /\ WlSkeletonShown
                      \/ v = "empty" /\ WlEmptyShown
                      \/ v = "accordions" /\ WlListShown}) = 1
    /\ WlListShown => ~wlLoading /\ ~WlSkeletonShown

\* C12 witness: the accordions of a list of two pages are rendered after a
\* fetchMore answered.
C12_Witness ==
  /\ screen = "customerWallets"
  /\ lastOp.op = "fetchMoreResult"
  /\ WlListShown
  /\ Len(list) > 1
  /\ ~WlSkeletonShown /\ ~WlEmptyShown /\ ~WlErrorShown

\* C13: on the webhook logs page the error placeholder is shown iff an error
\* is set and neither loading nor isLoading holds; when it is not shown the
\* empty placeholder is shown iff neither flag holds and the collection is
\* empty, and otherwise the log list is; title and subtitle of the empty
\* placeholder are the search variants iff the variables carry a search term.
C13_WebhookLogsViews ==
  screen = "webhookLogs" =>
    /\ WhErrorShown <=> (whError /\ ~whLoading /\ ~whIsLoading)
    /\ WhErrorShown => (~WhEmptyShown /\ ~WhListShown)
    /\ ~WhErrorShown =>
         /\ WhEmptyShown <=> (~whLoading /\ ~whIsLoading /\ Len(Collection(whData)) = 0)
         /\ WhListShown <=> ~WhEmptyShown
    /\ WhEmptyTitle = "search" <=> whSearchTerm # ""
    /\ WhEmptySubtitle = "search" <=> whSearchTerm # ""

\* C13 witness: a search for a term answered with no log and the empty
\* placeholder shows its search variant.
C13_Witness ==
  /\ screen = "webhookLogs"
  /\ lastOp.op = "queryResult"
  /\ WhEmptyShown
  /\ whSearchTerm # ""
  /\ WhEmptyTitle = "search"

(***************************************************************************)
(* Claims about the selected log (SpecLists).                               *)
(***************************************************************************)
\* the rows of the log list that render WebhookLogDetails
DetailsPanels ==
  IF WhListShown
    THEN {i \in DOMAIN Collection(whData) : selectedLogId = Some(Collection(whData)[i].id)}
    ELSE {}

\* C14: after every handler and its effects, selectedLogId is undefined iff the
\* loaded collection is empty and is otherwise the id of a log of the
\* collection; the details panel is rendered for exactly one log when the
\* collection is not empty and for none when it is empty.
C14_SelectedLogInCollection ==
  screen = "webhookLogs" =>
    /\ selectedLogId = None <=> Len(Collection(whData)) = 0
    /\ selectedLogId # None =>
         \E i \in DOMAIN Collection(whData) : Collection(whData)[i].id = selectedLogId[1]
    /\ Cardinality(DetailsPanels) = IF Len(Collection(whData)) = 0 THEN 0 ELSE 1

\* C14 witness: the key handler selected the last of three loaded logs and its
\* panel is the only one.
C14_Witness ==
  /\ screen = "webhookLogs"
  /\ lastOp.op = "keyDown"
  /\ Len(Collection(whData)) = 3
  /\ selectedLogId = Some(Collection(whData)[3].id)
  /\ DetailsPanels = {3}

\* C15: every step that changes the loaded collection to a non-empty list (the
\* first load, a refetch, a new search, a page appended by fetchMore) sets
\* selectedLogId to the id of the first log; a selection made by click or key
\* stays as long as the collection does not change.
C15_CollectionChangeResetsSelection ==
  [][/\ (Collection(whData') # Collection(whData) /\ Len(Collection(whData')) > 0)
         => selectedLogId' = Some(Collection(whData')[1].id)
     /\ (Collection(whData') = Collection(whData) /\ lastOp'.op \notin {"logClick", "keyDown"})
         => selectedLogId' = selectedLogId]_vars

\* C15 witness: a page was appended by fetchMore while the second log was
\* selected, and the first log is selected again.
C15_Witness ==
  /\ screen = "webhookLogs"
  /\ lastOp.op = "fetchMoreResult"
  /\ lastOp.ok
  /\ Len(Collection(whData)) = 3
  /\ lastOp.selected = Some(Collection(whData)[2].id)
  /\ selectedLogId = Some(Collection(whData)[1].id)

(***************************************************************************)
(* Claims about the page loads of the two lists (SpecLists).                *)
(***************************************************************************)
\* the fetchMore requests of the webhook logs page that have not settled
WhFetchMoresInFlight == SelectSeq(whInFlight, LAMBDA r : r.kind = "fetchMore")

\* C16: fetchMoreLoading is true exactly while a fetchMore started by onBottom
\* is in flight; it is false again once that fetchMore settled, resolved or
\* rejected.
C16_FetchMoreLoadingTracksFetchMore ==
  screen = "webhookLogs" => (fetchMoreLoading <=> Len(WhFetchMoresInFlight) > 0)

\* C17: on both lists at most one fetchMore is in flight at any time, so that
\* no page is requested twice.
C17_OneFetchMoreInFlight ==
  /\ screen = "webhookLogs" => Len(WhFetchMoresInFlight) <= 1
  /\ screen = "customerWallets" =>
       /\ Len(wlInFlight) <= 1
       /\ \A i, j \in DOMAIN wlInFlight : wlInFlight[i] = wlInFlight[j] => i = j

(***************************************************************************)
(* Claims about the filter buttons of the webhook logs page (SpecLists).    *)
(***************************************************************************)
\* the filter buttons rendered in the 'secondary' variant
SecondaryButtons ==
  {b \in {"all", "succeeded", "failed"} :
     \/ b = "all" /\ AllVariant = "secondary"
     \/ b = "succeeded" /\ SucceededVariant = "secondary"
     \/ b = "failed" /\ FailedVariant = "secondary"}

\* C18: for every value of the tab route parameter exactly one of the three
\* filter buttons is rendered in the 'secondary' variant, and it matches the
\* status variable of the query: All iff no status is sent, Succeeded iff
\* status = succeeded, Failed iff status = failed.
C18_OneFilterButtonActive ==
  (screen = "webhookLogs" /\ ~WhErrorShown) =>
    /\ Cardinality(SecondaryButtons) = 1
    /\ "all" \in SecondaryButtons <=> Status = None
    /\ "succeeded" \in SecondaryButtons <=> Status = Some("succeeded")
    /\ "failed" \in SecondaryButtons <=> Status = Some("failed")

(***************************************************************************)
(* Claims about groupedLogs (SpecGrouping).                                 *)
(***************************************************************************)
\* the positions of the collection whose log falls on the date of a key
PositionsOf(key) ==
  {i \in DOMAIN Collection(whData) :
     formatTimeOrgaTZ(Collection(whData)[i].createdAt) = key}

FirstPositionOf(key) == CHOOSE i \in PositionsOf(key) : \A j \in PositionsOf(key) : i <= j

\* C19: groupedLogs is a partition of the loaded collection: every log is in
\* exactly one group, the one keyed by formatTimeOrgaTZ(createdAt), the logs of
\* a group are in collection order and the groups are ordered by first
\* appearance; the rows of a collection of n logs carry the navigation ids
\* webhook-item-0 .. webhook-item-(n-1) in render order, group by group.
C19_GroupedLogsPartition ==
  screen = "webhookLogs" =>
    LET collection == Collection(whData)
        groups == groupedLogs
    IN /\ \A i \in DOMAIN collection :
            Cardinality({<<g, j>> \in (DOMAIN groups) \X (1 .. MaxLogs) :
                           j \in DOMAIN groups[g].items
                           /\ groups[g].items[j] = collection[i]}) = 1
       /\ \A g \in DOMAIN groups :
            /\ groups[g].items # <<>>
            /\ groups[g].items =
                 SelectSeq(collection,
                           LAMBDA l : formatTimeOrgaTZ(l.createdAt) = groups[g].key)
       /\ \A g, h \in DOMAIN groups :
            g < h => FirstPositionOf(groups[g].key) < FirstPositionOf(groups[h].key)
       /\ WhListShown =>
            /\ Len(RenderedRows) = Len(collection)
            /\ \A k \in DOMAIN RenderedRows :
                 RenderedRows[k].id = [key |-> WEBHOOK_ITEM_NAV_KEY, index |-> k - 1]
            /\ \A k \in DOMAIN RenderedRows :
                 \E g \in DOMAIN groups :
                   LET before == Len(GroupsRows(SubSeq(groups, 1, g - 1), -1))
                   IN /\ k - before \in DOMAIN groups[g].items
                      /\ RenderedRows[k].dataId = groups[g].items[k - before].id

\* C19 witness: three logs whose second is of another day than the first and
\* the third: two groups, the third log rendered second.
C19_Witness ==
  /\ screen = "webhookLogs"
  /\ lastOp.op = "collectionResult"
  /\ WhListShown
  /\ Len(Collection(whData)) = 3
  /\ Len(groupedLogs) = 2
  /\ Len(groupedLogs[1].items) = 2
  /\ RenderedRows[2].dataId = Collection(whData)[3].id
  /\ RenderedRows[2].id = [key |-> WEBHOOK_ITEM_NAV_KEY, index |-> 1]

(***************************************************************************)
(* Claims about the actions menu of the wallet list (SpecLists).            *)
(***************************************************************************)
\* C20: the menu of the actions on the active wallet (top-up, edit, void,
\* terminate) is rendered only when the loaded list holds an Active wallet,
\* whatever the permission checks answer: no entry of the menu is used without
\* an active wallet, so that edit never navigates with an undefined walletId
\* and top-up, void and terminate never address a dialog that is not mounted.
C20_MenuNeedsActiveWallet ==
  screen = "customerWallets" =>
    /\ (WlSectionShown /\ ShowWalletActionsMenu) => HasActiveWallet
    /\ (lastOp.op = "walletAction" /\ lastOp.action \in {"topUp", "edit", "void", "terminate"})
         => lastOp.active

\* C21: the create-wallet button is offered only when none of the customer's
\* wallets is Active, the wallets of pages not fetched yet included; the
\* create-wallet button and the actions menu are never rendered together.
C21_CreateOnlyWithoutActiveWallet ==
  screen = "customerWallets" =>
    /\ (WlSectionShown /\ ShowCreateWalletButton) =>
         \A i \in DOMAIN wlServer : wlServer[i].status # "active"
    /\ ~(ShowCreateWalletButton /\ ShowWalletActionsMenu)

(***************************************************************************)
(* Claims about the Moneyhash details page (SpecIntegrations).              *)
(***************************************************************************)
\* C22: the details page renders without a runtime error in every state of
\* its query: when loading is false and the provider is absent (query skipped,
\* failed, or paymentProvider null) no property of an undefined provider is
\* read.
C22_DetailsRenderNeverThrows == ~DetailsRenderThrows

\* C23: on the details page every control that opens the edit or the delete
\* dialog is unavailable while the query is loading, and both dialogs are
\* opened with the loaded provider, never with an undefined one.
C23_DialogsOpenedWithProvider ==
  igLocation = MoneyhashDetailsPage =>
    /\ igLoading =>
         ~ShowEditIntegrationButton /\ ~ShowDeleteIntegrationButton /\ ~SectionEditEnabled
    /\ igDialog.kind \in {"edit", "delete"} => igDialog.provider # None

(***************************************************************************)
(* Claims about the payBack of a prepaid-credits invoice (SpecForm).        *)
(***************************************************************************)
\* C24: for a prepaid-credits invoice, whenever creditFee[0].value is neither
\* empty nor 0, payBack is, after the effects, the one entry of type refund
\* with that value; a step that clears the value leaves payBack as it was; for
\* any other invoice type a change of a credit or add-on fee leaves payBack
\* alone; the checked flag of the credit fee has no influence on payBack.
C24_PayBackFollowsCreditFee ==
  /\ [](IsPrepaidCreditsInvoice(invoiceType) /\ Truthy(creditFeeValue(values))
          => values.payBack = <<[type |-> "refund", value |-> creditFeeValue(values)]>>)
  /\ [][/\ (lastOp'.op = "listFeeValue" /\ ~Truthy(creditFeeValue(values')))
             => values'.payBack = values.payBack
        /\ (lastOp'.op = "listFeeValue" /\ ~IsPrepaidCreditsInvoice(invoiceType))
             => values'.payBack = values.payBack
        /\ lastOp'.op = "creditFeeCheckbox" => values'.payBack = values.payBack]_vars

\* C24 witness: the value of the credit fee was cleared and the refund of the
\* former value is still the payBack.
C24_Witness ==
  /\ IsPrepaidCreditsInvoice(invoiceType)
  /\ lastOp.op = "listFeeValue"
  /\ creditFeeValue(values) = Some(0)
  /\ values.payBack = <<[type |-> "refund", value |-> Some(MaxAmount)]>>

(***************************************************************************)
(* Claims about the charges section of the plan details (SpecViews).        *)
(***************************************************************************)
\* the charges of the plan prop, none when the plan or its charges are absent
PlanCharges ==
  IF props.plan = None \/ props.plan[1].charges = None THEN <<>>
                                                      ELSE props.plan[1].charges[1]

\* the charges shown by the accordions of a section, in order
ShownCharges(section) ==
  IF section = None THEN <<>>
  ELSE [i \in DOMAIN section[1].accordions |-> section[1].accordions[i].charge]

\* C25: the charges of the plan are split into metered and recurring: each
\* charge is in exactly one list, the recurring one iff billableMetric.recurring
\* is truthy, in the order of the plan; a section is rendered iff its list is
\* not empty, and none is rendered when the plan or its charges are absent.
C25_ChargesPartition ==
  (view = "PlanDetailsChargesSection" /\ rendered # None) =>
    LET out == rendered[1]
        metered == SelectSeq(PlanCharges, LAMBDA c : ~c.billableMetric.recurring)
        recurring == SelectSeq(PlanCharges, LAMBDA c : c.billableMetric.recurring)
    IN /\ ShownCharges(out.metered) = metered
       /\ ShownCharges(out.recurring) = recurring
       /\ out.metered # None <=> metered # <<>>
       /\ out.recurring # None <=> recurring # <<>>
       /\ \A i \in DOMAIN PlanCharges :
            Cardinality({<<l, j>> \in {"metered", "recurring"} \X (1 .. MaxCharges) :
                           /\ j \in DOMAIN ShownCharges(out[l])
                           /\ ShownCharges(out[l])[j] = PlanCharges[i]}) = 1
       /\ (props.plan = None \/ props.plan[1].charges = None) =>
            out.metered = None /\ out.recurring = None

\* C25 witness: a plan of two metered charges rendered as one section of two
\* accordions in the plan's order.
C25_Witness ==
  /\ view = "PlanDetailsChargesSection"
  /\ rendered # None
  /\ Len(PlanCharges) = 2
  /\ rendered[1].recurring = None
  /\ ShownCharges(rendered[1].metered) = PlanCharges

\* C26: the invoicing strategy shown for a metered charge is the text
\* text_66968fba80f8f89a8aefdec0 when payInAdvance is false, or when it is
\* true with invoiceable false and regroupPaidFees = Invoice; the text
\* text_66968fba80f8f89a8aefdebf when payInAdvance and invoiceable are true;
\* the text text_6682c52081acea9052074686 in every other case.
C26_InvoicingStrategy ==
  (view = "PlanDetailsChargesSection" /\ rendered # None /\ rendered[1].metered # None) =>
    \A i \in DOMAIN rendered[1].metered[1].accordions :
      LET row == rendered[1].metered[1].accordions[i]
          c == row.charge
      IN row.invoicingStrategy =
           IF \/ ~c.payInAdvance
              \/ c.payInAdvance /\ ~c.invoiceable /\ c.regroupPaidFees = "invoice"
             THEN "text_66968fba80f8f89a8aefdec0"
             ELSE IF c.payInAdvance /\ c.invoiceable
                    THEN "text_66968fba80f8f89a8aefdebf"
                    ELSE "text_6682c52081acea9052074686"

\* C26 witness: a metered charge paid in advance, not invoiceable, regrouped
\* by invoice, shown with the text of the charges not paid in advance.
C26_Witness ==
  /\ view = "PlanDetailsChargesSection"
  /\ rendered # None
  /\ rendered[1].metered # None
  /\ \E i \in DOMAIN rendered[1].metered[1].accordions :
       LET row == rendered[1].metered[1].accordions[i]
       IN /\ row.charge.payInAdvance /\ ~row.charge.invoiceable
          /\ row.charge.regroupPaidFees = "invoice"
          /\ row.invoicingStrategy = "text_66968fba80f8f89a8aefdec0"

(***************************************************************************)
(* Claims about the status badge of the credit note form (SpecViews).       *)
(***************************************************************************)
\* C27: the invoice status badge is 'disputeLost' (danger) whenever
\* paymentDisputeLostAt is set, whatever the payment status; otherwise it is
\* success/'succeeded' for Succeeded, default/'pending' for Pending and
\* warning/'failed' for every other status, Failed and undefined included.
C27_StatusBadge ==
  (view = "Status" /\ rendered # None) =>
    LET invoice == props.invoice
        badge == rendered[1]
    IN /\ invoice.paymentDisputeLostAt \notin {null, undefined} =>
            badge = [type |-> "danger", label |-> "disputeLost"]
       /\ invoice.paymentDisputeLostAt \in {null, undefined} =>
            /\ invoice.paymentStatus = "succeeded" =>
                 badge = [type |-> "success", label |-> "succeeded"]
            /\ invoice.paymentStatus = "pending" =>
                 badge = [type |-> "default", label |-> "pending"]
            /\ invoice.paymentStatus \notin {"succeeded", "pending"} =>
                 badge = [type |-> "warning", label |-> "failed"]

\* C27 witness: an invoice without lost dispute and with a pending payment,
\* shown with the default badge.
C27_Witness ==
  /\ view = "Status"
  /\ rendered # None
  /\ props.invoice.paymentDisputeLostAt = undefined
  /\ props.invoice.paymentStatus = "pending"
  /\ rendered[1] = [type |-> "default", label |-> "pending"]

(***************************************************************************)
(* Claims about the filter panel (SpecViews).                               *)
(***************************************************************************)
\* C29: FiltersPanelItemTypeSwitch renders only the dashed placeholder when
\* filterType is undefined; for every defined filter type it renders a label
\* (the issuing-date label iff the type is issuingDate) followed by an input
\* element bound to the given value and setFilterValue.
C29_EveryFilterTypeHasInput ==
  (view = "FiltersPanelItemTypeSwitch" /\ rendered # None) =>
    LET out == rendered[1]
    IN /\ props.filterType = undefined =>
            out.placeholder /\ out.label = None /\ out.input = None
       /\ props.filterType # undefined =>
            /\ ~out.placeholder
            /\ out.label # None
            /\ (out.label[1] = "text_66ab42d4ece7e6b7078993e2")
                 <=> (props.filterType = "issuingDate")
            /\ out.input # None
            /\ out.input[1].value = props.value
            /\ out.input[1].setFilterValue = props.setFilterValue

(***************************************************************************)
(* Claims about the order of the fold of checkboxGroupValue (SpecFees).     *)
(***************************************************************************)
\* what the children of a subscription contribute, in the order of Object.keys
ChildValuesOf(sub) == [i \in DOMAIN sub.fees |-> ChildValue(sub.fees[i])]

\* what the inner fees of a grouped fee contribute, in the order of Object.keys
GroupedValuesOf(child) == [j \in DOMAIN child.grouped |-> JsBool(child.grouped[j].checked)]

\* the sequences that enumerate the same values in another order
Reorderings(vals) == {[i \in DOMAIN vals |-> vals[p[i]]] : p \in Permutations(DOMAIN vals)}

IsNotNull(v) == v # null

\* C28: the header checkbox value of a subscription does not depend on the
\* order in which its fees and grouped fees are enumerated: the fold of
\* determineCheckboxValue from null gives the same result over every
\* permutation of the same children, null is its identity and undefined is
\* absorbing, also when a grouped fee has no inner fee (group value null).
C28_FoldOrderIndependent ==
  \A s \in DOMAIN values.fees :
    LET sub == values.fees[s]
        vals == ChildValuesOf(sub)
    IN /\ \A r \in Reorderings(vals) : ReduceCheckbox(null, r) = HeaderValue(s)
       /\ HeaderValue(s) = ReduceCheckbox(null, SelectSeq(vals, IsNotNull))
       /\ (\E i \in DOMAIN vals : vals[i] = undefined) => HeaderValue(s) = undefined
       /\ \A i \in DOMAIN sub.fees :
            ~IsFromFee(sub.fees[i]) =>
              \A r \in Reorderings(GroupedValuesOf(sub.fees[i])) :
                ReduceCheckbox(null, r) = GroupValue(sub.fees[i])

====
